---------------------------- MODULE Spec2Model ----------------------------
(***************************************************************************)
(* A model of the InfluxQL parser of src/influxql/parser.go.               *)
(*                                                                         *)
(* Representation.                                                         *)
(*   - A Go string is a sequence of one-character strings, <<"1","m","s">>.*)
(*     The printable name of a token is the one-chunk string <<"SELECT">>. *)
(*   - A 64-bit integer (int, int64, uint64, time.Duration) is a tuple of  *)
(*     four 16-bit limbs, least significant first, in two's complement:    *)
(*     the values of the program (2^31, 2^32-1, 2^63-1, week = 6.048e14    *)
(*     ns) do not fit TLC's integers, and the wrap-around of a             *)
(*     multiplication is part of what the program does.                    *)
(*   - A nil pointer, a nil interface, a nil slice or a nil error is <<>>; *)
(*     a node of the AST and an error are records, and so is a Statement   *)
(*     interface that holds a nil pointer. The Message and the Found of an *)
(*     error are strings in chunks, <<>> the empty string.                 *)
(*   - A token is [tok, lit]; its Pos is its index in the token stream,    *)
(*     the EOF token sitting one past the last token.                      *)
(*   - Every parser routine is an operator from the parser state p to      *)
(*     [p, v, e]: the parser state after the call, the value returned and  *)
(*     the error returned.                                                 *)
(***************************************************************************)
EXTENDS Integers, Sequences, FiniteSets, TLC

VARIABLES
    pc,          \* the position of the running entry point
    p,           \* Parser: the token stream and the bufScanner over it
    expr,        \* ParseExpr: the local expr, the root of the tree so far
    statements,  \* ParseQuery: the local statements
    ret,         \* what the entry point returned: [v, e]
    dur,         \* the time.Duration handed to FormatDuration
    text,        \* the string FormatDuration returned
    entry        \* the entry point that was called

vars == <<pc, p, expr, statements, ret, dur, text, entry>>

Nil == <<>>

\* v := ...; F(v): a local variable of the code, assigned once and read by
\* what follows. The value is computed once, where the variable is assigned.
Bind(v, F(_)) == CHOOSE r \in {F(x) : x \in {v}} : TRUE

(***************************************************************************)
(* 64-bit integers.                                                        *)
(***************************************************************************)
Base == 256 * 256

Zero64 == <<0, 0, 0, 0>>

\* The 64-bit value of a small natural number n (n < 2^31).
U64(n) == <<n % Base, (n \div Base) % Base, 0, 0>>

MaxUint64 == <<Base - 1, Base - 1, Base - 1, Base - 1>>

MaxInt64 == <<Base - 1, Base - 1, Base - 1, (Base \div 2) - 1>>

MaxInt32 == <<Base - 1, (Base \div 2) - 1, 0, 0>>

\* x * k + a for small k and a: the low 64 bits v and the carry out c.
MulAdd(x, k, a) ==
    Bind(x[1] * k + a, LAMBDA t1 :
    Bind(x[2] * k + (t1 \div Base), LAMBDA t2 :
    Bind(x[3] * k + (t2 \div Base), LAMBDA t3 :
    Bind(x[4] * k + (t3 \div Base), LAMBDA t4 :
        [v |-> <<t1 % Base, t2 % Base, t3 % Base, t4 % Base>>,
         c |-> t4 \div Base]))))

\* x * k in 64 bits, wrapping around as Go's integer multiplication does.
MulWrap(x, k) == MulAdd(x, k, 0).v

\* x * fs[1] * ... * fs[n], wrapping around.
RECURSIVE MulAll(_, _)
MulAll(x, fs) ==
    IF fs = <<>> THEN x ELSE MulAll(MulWrap(x, Head(fs)), Tail(fs))

\* The unsigned quotient q and remainder r of x by a small k.
DivMod(x, k) ==
    Bind((x[4] % k) * Base + x[3], LAMBDA t3 :
    Bind((t3 % k) * Base + x[2], LAMBDA t2 :
    Bind((t2 % k) * Base + x[1], LAMBDA t1 :
        [q |-> <<t1 \div k, t2 \div k, t3 \div k, x[4] \div k>>, r |-> t1 % k])))

\* x / (fs[1] * ... * fs[n]) for x >= 0, and whether the division is exact:
\* x % (a * b) = 0 exactly when x % a = 0 and (x / a) % b = 0.
RECURSIVE DivAll(_, _)
DivAll(x, fs) ==
    IF fs = <<>> THEN [q |-> x, exact |-> TRUE]
    ELSE Bind(DivMod(x, Head(fs)), LAMBDA d1 :
         Bind(DivAll(d1.q, Tail(fs)), LAMBDA rest :
             [q |-> rest.q, exact |-> (d1.r = 0) /\ rest.exact]))

\* The sign of a two's complement value.
IsNeg(x) == x[4] >= Base \div 2

\* -x in two's complement.
Neg64(x) ==
    MulAdd(<<Base - 1 - x[1], Base - 1 - x[2], Base - 1 - x[3], Base - 1 - x[4]>>,
           1, 1).v

\* x < y as unsigned values.
LtU(x, y) ==
    \/ x[4] < y[4]
    \/ x[4] = y[4] /\ x[3] < y[3]
    \/ x[4] = y[4] /\ x[3] = y[3] /\ x[2] < y[2]
    \/ x[4] = y[4] /\ x[3] = y[3] /\ x[2] = y[2] /\ x[1] < y[1]

\* x < y as signed values.
LtS(x, y) ==
    IF IsNeg(x) # IsNeg(y) THEN IsNeg(x) ELSE LtU(x, y)

(***************************************************************************)
(* Strings and strconv.                                                    *)
(***************************************************************************)
DigitChars == <<"0", "1", "2", "3", "4", "5", "6", "7", "8", "9">>

isDigit(ch) == \E i \in 1..10 : DigitChars[i] = ch

DigitVal(ch) == (CHOOSE i \in 1..10 : DigitChars[i] = ch) - 1

\* len(s) in bytes: the micro sign is the one two-byte character of the model.
ByteLen(s) == Len(s) + Cardinality({i \in 1..Len(s) : s[i] = "µ"})

\* strings.Contains(s, ".")
ContainsDot(s) == \E i \in 1..Len(s) : s[i] = "."

\* The loop of strconv.ParseUint(s, 10, bits) from digit i on, n so far:
\* a character that is no digit is a syntax error with value 0, a value
\* beyond maxVal is a range error with value 2^64-1.
RECURSIVE ParseUintFrom(_, _, _, _)
ParseUintFrom(s, i, n, maxVal) ==
    IF i > Len(s) THEN [n |-> n, err |-> ""]
    ELSE IF ~isDigit(s[i]) THEN [n |-> Zero64, err |-> "invalid syntax"]
    ELSE Bind(MulAdd(n, 10, DigitVal(s[i])), LAMBDA m :
             IF m.c # 0 \/ LtU(maxVal, m.v)
             THEN [n |-> MaxUint64, err |-> "value out of range"]
             ELSE ParseUintFrom(s, i + 1, m.v, maxVal))

\* strconv.ParseUint(s, 10, 64) and strconv.ParseUint(s, 10, 32).
ParseUint(s, maxVal) ==
    IF s = <<>> THEN [n |-> Zero64, err |-> "invalid syntax"]
    ELSE ParseUintFrom(s, 1, Zero64, maxVal)

\* strconv.ParseInt(s, 10, 64) (and strconv.Atoi, an int being 64 bits wide):
\* an optional sign, then ParseUint; a magnitude beyond the signed range is a
\* range error with the value clamped to the nearest bound.
ParseInt(s) ==
    IF s = <<>> THEN [n |-> Zero64, err |-> "invalid syntax"]
    ELSE Bind(Head(s) = "-", LAMBDA neg :
         Bind(<<0, 0, 0, Base \div 2>>, LAMBDA cutoff :
         Bind(ParseUint(IF Head(s) \in {"+", "-"} THEN Tail(s) ELSE s, MaxUint64),
              LAMBDA un :
             IF un.err = "invalid syntax" THEN [n |-> Zero64, err |-> un.err]
             ELSE IF un.err = "value out of range" /\ ~neg
                  THEN [n |-> MaxInt64, err |-> "value out of range"]
             ELSE IF un.err = "value out of range"
                  THEN [n |-> cutoff, err |-> "value out of range"]
             ELSE IF ~neg /\ ~LtU(un.n, cutoff)
                  THEN [n |-> MaxInt64, err |-> "value out of range"]
             ELSE IF neg /\ LtU(cutoff, un.n)
                  THEN [n |-> cutoff, err |-> "value out of range"]
             ELSE [n |-> IF neg THEN Neg64(un.n) ELSE un.n, err |-> ""])))

\* The decimal digits of an unsigned value.
RECURSIVE FormatUint(_)
FormatUint(x) ==
    Bind(DivMod(x, 10), LAMBDA d1 :
        IF d1.q = Zero64 THEN <<DigitChars[d1.r + 1]>>
        ELSE Append(FormatUint(d1.q), DigitChars[d1.r + 1]))

\* fmt.Sprintf("%d", x) of a signed value.
FormatInt(x) ==
    IF IsNeg(x) THEN <<"-">> \o FormatUint(Neg64(x)) ELSE FormatUint(x)

(***************************************************************************)
(* Durations: time.Duration is an int64 count of nanoseconds.              *)
(***************************************************************************)
\* time.Microsecond ... 7*24*time.Hour, each as the factors of its length.
Microsecond == <<1000>>
Millisecond == <<1000, 1000>>
Second == <<1000, 1000, 1000>>
Minute == Second \o <<60>>
Hour == Second \o <<60 * 60>>
Day == Hour \o <<24>>
Week == Hour \o <<7 * 24>>

\* split: the string as its characters (the model's strings already are).
split(s) == s

\* d % unit == 0 and d / unit of Go's truncated division: the sign of d
\* carries over to the quotient.
DurMod0(d, unit) ==
    DivAll(IF IsNeg(d) THEN Neg64(d) ELSE d, unit).exact

DurDiv(d, unit) ==
    IF IsNeg(d) THEN Neg64(DivAll(Neg64(d), unit).q) ELSE DivAll(d, unit).q

\* errors.New("invalid duration")
ErrInvalidDuration == [s |-> "invalid duration"]

\* The multiplication by the unit of measure that ends ParseDuration; bare is
\* the unit of a number that names none.
DurationInUnit(n, uom, bare) ==
    IF uom \in {<<"u">>, <<"µ">>} THEN [v |-> MulAll(n, bare), e |-> Nil]
    ELSE IF uom = <<"m", "s">> THEN [v |-> MulAll(n, Millisecond), e |-> Nil]
    ELSE IF uom = <<"s">> THEN [v |-> MulAll(n, Second), e |-> Nil]
    ELSE IF uom = <<"m">> THEN [v |-> MulAll(n, Minute), e |-> Nil]
    ELSE IF uom = <<"h">> THEN [v |-> MulAll(n, Hour), e |-> Nil]
    ELSE IF uom = <<"d">> THEN [v |-> MulAll(n, Day), e |-> Nil]
    ELSE IF uom = <<"w">> THEN [v |-> MulAll(n, Week), e |-> Nil]
    ELSE [v |-> Zero64, e |-> ErrInvalidDuration]

\* The body of ParseDuration; bare is the unit of a string that names none.
ParseDurationIn(s, bare) ==
    IF ByteLen(s) = 0 THEN [v |-> Zero64, e |-> ErrInvalidDuration]
    ELSE IF ByteLen(s) = 1
         THEN Bind(ParseInt(s), LAMBDA n :
                  IF n.err = "" THEN [v |-> MulAll(n.n, bare), e |-> Nil]
                  ELSE [v |-> Zero64, e |-> ErrInvalidDuration])
    ELSE Bind(split(s), LAMBDA a :
         Bind(ByteLen(s) > 2 /\ Len(a) >= 2
                  /\ a[Len(a) - 1] = "m" /\ a[Len(a)] = "s", LAMBDA isMs :
         Bind(IF isDigit(a[Len(a)]) THEN s
              ELSE IF isMs THEN SubSeq(a, 1, Len(a) - 2)
              ELSE SubSeq(a, 1, Len(a) - 1), LAMBDA num :
         Bind(IF isDigit(a[Len(a)]) THEN <<"u">>
              ELSE IF isMs THEN <<"m", "s">>
              ELSE SubSeq(a, Len(a), Len(a)), LAMBDA uom :
         Bind(ParseInt(num), LAMBDA n :
             IF n.err # "" THEN [v |-> Zero64, e |-> ErrInvalidDuration]
             ELSE DurationInUnit(n.n, uom, bare))))))

\* ParseDuration as a slip would have it: a number without a unit of measure
\* taken in Go's own unit, the nanosecond.
ParseDurationBareNanos(s) == ParseDurationIn(s, <<>>)

ParseDuration(s) == ParseDurationIn(s, Microsecond)

FormatDuration(d) ==
    IF d = Zero64 THEN <<"0", "s">>
    ELSE IF DurMod0(d, Week) THEN FormatInt(DurDiv(d, Week)) \o <<"w">>
    ELSE IF DurMod0(d, Day) THEN FormatInt(DurDiv(d, Day)) \o <<"d">>
    ELSE IF DurMod0(d, Hour) THEN FormatInt(DurDiv(d, Hour)) \o <<"h">>
    ELSE IF DurMod0(d, Minute) THEN FormatInt(DurDiv(d, Minute)) \o <<"m">>
    ELSE IF DurMod0(d, Second) THEN FormatInt(DurDiv(d, Second)) \o <<"s">>
    ELSE IF DurMod0(d, Millisecond)
         THEN FormatInt(DurDiv(d, Millisecond)) \o <<"m", "s">>
    ELSE FormatInt(DurDiv(d, Microsecond))

(***************************************************************************)
(* Tokens and the bufScanner.                                              *)
(***************************************************************************)
\* A token without a literal: a keyword, an operator, punctuation, WS, EOF.
Tk(tok) == [tok |-> tok, lit |-> <<>>]

\* A run of whitespace: one WS token, its literal the whitespace.
Ws == [tok |-> "WS", lit |-> <<" ">>]

\* The tokens with a literal.
Ident(lit) == [tok |-> "IDENT", lit |-> lit]
Number(lit) == [tok |-> "NUMBER", lit |-> lit]
String(lit) == [tok |-> "STRING", lit |-> lit]
DurationVal(lit) == [tok |-> "DURATION_VAL", lit |-> lit]
Regex(lit) == [tok |-> "REGEX", lit |-> lit]

Operators ==
    {"ADD", "SUB", "MUL", "DIV", "AND", "OR", "EQ", "NEQ", "LT", "LTE", "GT", "GTE"}

isOperator(tok) == tok \in Operators

Precedence(tok) ==
    CASE tok \in {"MUL", "DIV"} -> 4
      [] tok \in {"ADD", "SUB"} -> 3
      [] tok \in {"EQ", "NEQ", "LT", "LTE", "GT", "GTE"} -> 2
      [] tok \in {"AND", "OR"} -> 1
      [] OTHER -> 0

\* tokstr: the literal of the token when it has one, its name otherwise.
tokstr(tok, lit) == IF lit # <<>> THEN lit ELSE <<tok>>

\* NewParser: nothing read from the scanner (i = 0), the buffer not live.
\* unscans counts the calls of unscan since the last scan, twice records
\* that unscan has been called with no scan since the unscan before it, and
\* stalled that a loop has gone round without reading a new token.
NewParser(toks) ==
    [toks |-> toks, i |-> 0, n |-> 0, unscans |-> 0, twice |-> FALSE,
     stalled |-> FALSE]

\* The i-th token of the underlying Scanner: EOF for ever past the end.
TokAt(toks, i) == IF i <= Len(toks) THEN toks[i] ELSE Tk("EOF")

\* bufScanner.Scan: the buffered triple when the buffer is live, the next
\* triple of the Scanner otherwise. The buffer holds the token at p.i.
scan(p0) ==
    Bind(IF p0.n > 0 THEN p0.i
         ELSE IF p0.i <= Len(p0.toks) THEN p0.i + 1 ELSE p0.i, LAMBDA j :
        [p |-> [p0 EXCEPT !.i = j, !.n = 0, !.unscans = 0],
         tok |-> TokAt(p0.toks, j).tok,
         pos |-> j, lit |-> TokAt(p0.toks, j).lit])

\* bufScanner.Unscan: the buffer is live again.
unscan(p0) ==
    [p0 EXCEPT !.n = 1, !.unscans = IF @ < 2 THEN @ + 1 ELSE @,
               !.twice = @ \/ p0.unscans > 0]

\* The jump back to the head of a `for` loop, the iteration having begun in
\* the parser state p0 and ending in p1: the tokens read and not pushed back
\* are those before i - n.
Iterated(p0, p1) ==
    [p1 EXCEPT !.stalled = @ \/ p1.i - p1.n <= p0.i - p0.n]

\* scanIgnoreWhitespace as a slip would have it: the whitespace not skipped.
scanKeepWhitespace(p0) == scan(p0)

scanIgnoreWhitespace(p0) ==
    Bind(scan(p0), LAMBDA t : IF t.tok = "WS" THEN scan(t.p) ELSE t)

consumeWhitespace(p0) ==
    Bind(scan(p0), LAMBDA t : IF t.tok # "WS" THEN unscan(t.p) ELSE t.p)

(***************************************************************************)
(* Errors and results.                                                     *)
(***************************************************************************)
\* newParseError as a slip would have it: the list of what was expected left
\* out of the error.
newParseErrorBare(found, expected, pos) ==
    [Message |-> <<>>, Found |-> found, Expected |-> <<>>, Pos |-> pos]

newParseError(found, expected, pos) ==
    [Message |-> <<>>, Found |-> found, Expected |-> expected, Pos |-> pos]

\* &ParseError{Message: msg, Pos: pos}
MessageError(msg, pos) ==
    [Message |-> msg, Found |-> <<>>, Expected |-> <<>>, Pos |-> pos]

\* return v, nil
Ok(p0, v) == [p |-> p0, v |-> v, e |-> Nil]

\* return zero, err
Err(p0, zero, e) == [p |-> p0, v |-> zero, e |-> e]

\* return zero, newParseError(tokstr(tok, lit), expected, pos) for the
\* scanned token t.
Unexpected(t, zero, expected) ==
    Err(t.p, zero, newParseError(tokstr(t.tok, t.lit), expected, t.pos))

\* return zero, &ParseError{Message: msg, Pos: pos} at the scanned token t.
Malformed(t, zero, msg) == Err(t.p, zero, MessageError(msg, t.pos))

(***************************************************************************)
(* Literals: strconv.ParseFloat, regexp.Compile, time.Parse.               *)
(***************************************************************************)
AllDigits(s) == \A i \in 1..Len(s) : isDigit(s[i])

RECURSIVE StripLeadingZeros(_)
StripLeadingZeros(s) ==
    IF Len(s) > 1 /\ Head(s) = "0" THEN StripLeadingZeros(Tail(s)) ELSE s

RECURSIVE StripTrailingZeros(_)
StripTrailingZeros(s) ==
    IF s # <<>> /\ s[Len(s)] = "0"
    THEN StripTrailingZeros(SubSeq(s, 1, Len(s) - 1)) ELSE s

\* strconv.ParseFloat(s, 64) of digits with an optional fraction: the value
\* as its integer digits and its fraction digits, insignificant zeros
\* dropped (binary rounding is not modelled).
ParseFloat(s) ==
    LET dot == IF ContainsDot(s)
               THEN CHOOSE i \in 1..Len(s) :
                        s[i] = "." /\ \A j \in 1..(i - 1) : s[j] # "."
               ELSE Len(s) + 1
        ip == SubSeq(s, 1, dot - 1)
        fp == SubSeq(s, dot + 1, Len(s))
    IN  IF AllDigits(ip) /\ AllDigits(fp) /\ (ip # <<>> \/ fp # <<>>)
        THEN [v |-> [int |-> StripLeadingZeros(IF ip = <<>> THEN <<"0">> ELSE ip),
                     frac |-> StripTrailingZeros(fp)],
              err |-> ""]
        ELSE [v |-> [int |-> <<"0">>, frac |-> <<>>], err |-> "invalid syntax"]

\* regexp.Compile: a pattern with unbalanced parentheses does not compile
\* (the one class of malformed pattern that is modelled).
RegexCompile(s) ==
    IF Cardinality({i \in 1..Len(s) : s[i] = "("})
         # Cardinality({i \in 1..Len(s) : s[i] = ")"})
    THEN [v |-> <<>>, err |-> "error parsing regexp"]
    ELSE [v |-> s, err |-> ""]

\* ^\d{4}-\d{2}-\d{2}
DatePrefix(s) ==
    /\ Len(s) >= 10
    /\ \A i \in {1, 2, 3, 4, 6, 7, 9, 10} : isDigit(s[i])
    /\ s[5] = "-"
    /\ s[8] = "-"

\* dateStringRegexp: ^\d{4}-\d{2}-\d{2}$
isDateString(s) == DatePrefix(s) /\ Len(s) = 10

\* dateTimeStringRegexp: ^\d{4}-\d{2}-\d{2}.+ (a dot matches no line feed)
isDateTimeString(s) == DatePrefix(s) /\ Len(s) > 10 /\ s[11] # "\n"

Two(s, i) == DigitVal(s[i]) * 10 + DigitVal(s[i + 1])

\* The calendar check of time.Parse on the date of s: a month of the year and
\* a day of that month.
ValidDate(s) ==
    LET y == Two(s, 1) * 100 + Two(s, 3)
        m == Two(s, 6)
        d == Two(s, 9)
        leap == y % 4 = 0 /\ (y % 100 # 0 \/ y % 400 = 0)
        days == IF m = 2 THEN (IF leap THEN 29 ELSE 28)
                ELSE IF m \in {4, 6, 9, 11} THEN 30 ELSE 31
    IN  m \in 1..12 /\ d \in 1..days

\* hh:mm:ss at s[i..i+7], in range.
ValidClock(s, i) ==
    /\ Len(s) >= i + 7
    /\ \A j \in {i, i + 1, i + 3, i + 4, i + 6, i + 7} : isDigit(s[j])
    /\ s[i + 2] = ":" /\ s[i + 5] = ":"
    /\ Two(s, i) < 24 /\ Two(s, i + 3) < 60 /\ Two(s, i + 6) < 60

\* The index after the fractional seconds that may start at s[i].
FracEnd(s, i) ==
    IF i + 1 <= Len(s) /\ s[i] = "." /\ isDigit(s[i + 1])
    THEN CHOOSE j \in (i + 2)..(Len(s) + 1) :
             /\ \A k \in (i + 1)..(j - 1) : isDigit(s[k])
             /\ (j = Len(s) + 1 \/ ~isDigit(s[j]))
    ELSE i

\* A time.Time as the fields time.Parse read.
Time(s, clock, frac, zone) ==
    [date |-> SubSeq(s, 1, 10), clock |-> clock,
     frac |-> StripTrailingZeros(frac), zone |-> zone]

Midnight == <<"0", "0", ":", "0", "0", ":", "0", "0">>

\* time.Parse(DateFormat, s)
ParseDate(s) ==
    IF isDateString(s) /\ ValidDate(s)
    THEN [v |-> Time(s, Midnight, <<>>, <<"Z">>), err |-> ""]
    ELSE [v |-> Nil, err |-> "parsing time"]

\* time.Parse(DateTimeFormat, s): a date, a space, a clock and optional
\* fractional seconds.
ParseDateTime(s) ==
    IF /\ DatePrefix(s) /\ ValidDate(s)
       /\ Len(s) >= 19 /\ s[11] = " "
       /\ ValidClock(s, 12)
       /\ FracEnd(s, 20) = Len(s) + 1
    THEN [v |-> Time(s, SubSeq(s, 12, 19), SubSeq(s, 21, Len(s)), <<"Z">>),
          err |-> ""]
    ELSE [v |-> Nil, err |-> "parsing time"]

\* time.Parse(time.RFC3339Nano, s): a date, T, a clock, optional fractional
\* seconds and a zone, Z or a signed hh:mm.
ParseRFC3339Nano(s) ==
    LET z == FracEnd(s, 20)
        zone == SubSeq(s, z, Len(s))
    IN  IF /\ DatePrefix(s) /\ ValidDate(s)
           /\ Len(s) >= 20 /\ s[11] = "T"
           /\ ValidClock(s, 12)
           /\ \/ zone = <<"Z">>
              \/ /\ Len(zone) = 6 /\ zone[1] \in {"+", "-"} /\ zone[4] = ":"
                 /\ \A k \in {2, 3, 5, 6} : isDigit(zone[k])
                 /\ Two(zone, 2) < 24 /\ Two(zone, 5) < 60
        THEN [v |-> Time(s, SubSeq(s, 12, 19), SubSeq(s, 21, z - 1), zone),
              err |-> ""]
        ELSE [v |-> Nil, err |-> "parsing time"]

(***************************************************************************)
(* Expressions.                                                            *)
(***************************************************************************)
BinaryExpr(lhs, op, rhs) == [k |-> "BinaryExpr", Op |-> op, LHS |-> lhs, RHS |-> rhs]
ParenExpr(e) == [k |-> "ParenExpr", Expr |-> e]
Call(name, args) == [k |-> "Call", Name |-> name, Args |-> args]
VarRef(val) == [k |-> "VarRef", Val |-> val]
Wildcard == [k |-> "Wildcard"]
NumberLiteral(val) == [k |-> "NumberLiteral", Val |-> val]
StringLiteral(val) == [k |-> "StringLiteral", Val |-> val]
BooleanLiteral(val) == [k |-> "BooleanLiteral", Val |-> val]
TimeLiteral(val) == [k |-> "TimeLiteral", Val |-> val]
DurationLiteral(val) == [k |-> "DurationLiteral", Val |-> val]
RegexLiteral(val) == [k |-> "RegexLiteral", Val |-> val]

RECURSIVE ParseExpr(_), parseUnaryExpr(_), parseCall(_, _)

\* NewRoot as a slip would have it: the rotation looking through the
\* parentheses of the tree built so far.
NewRootThroughParens(e0, op, rhs) ==
    IF e0.k = "ParenExpr" /\ e0.Expr.k = "BinaryExpr"
           /\ Precedence(e0.Expr.Op) < Precedence(op)
    THEN BinaryExpr(e0.Expr.LHS, e0.Expr.Op, BinaryExpr(e0.Expr.RHS, op, rhs))
    ELSE IF e0.k = "BinaryExpr" /\ Precedence(e0.Op) < Precedence(op)
         THEN BinaryExpr(e0.LHS, e0.Op, BinaryExpr(e0.RHS, op, rhs))
    ELSE BinaryExpr(e0, op, rhs)

\* The new root of ParseExpr's tree: the operator goes under a root of lower
\* precedence, taking the root's right operand, and above any other root.
NewRoot(e0, op, rhs) ==
    IF e0.k = "BinaryExpr" /\ Precedence(e0.Op) < Precedence(op)
    THEN BinaryExpr(e0.LHS, e0.Op, BinaryExpr(e0.RHS, op, rhs))
    ELSE BinaryExpr(e0, op, rhs)

\* One iteration of ParseExpr's loop on the tree e0: done when the loop
\* returned, with the expression or with an error.
ParseExprIter(p0, e0) ==
    Bind(scanIgnoreWhitespace(p0), LAMBDA op :
        IF ~isOperator(op.tok)
        THEN [p |-> unscan(op.p), v |-> e0, e |-> Nil, done |-> TRUE]
        ELSE Bind(parseUnaryExpr(op.p), LAMBDA rhs :
                 IF rhs.e # Nil
                 THEN [p |-> rhs.p, v |-> Nil, e |-> rhs.e, done |-> TRUE]
                 ELSE [p |-> Iterated(p0, rhs.p), v |-> NewRoot(e0, op.tok, rhs.v),
                       e |-> Nil, done |-> FALSE]))

RECURSIVE ParseExprLoop(_, _)
ParseExprLoop(p0, e0) ==
    Bind(ParseExprIter(p0, e0), LAMBDA it :
        IF it.done THEN [p |-> it.p, v |-> it.v, e |-> it.e]
        ELSE ParseExprLoop(it.p, it.v))

ParseExpr(p0) ==
    Bind(parseUnaryExpr(p0), LAMBDA first :
        IF first.e # Nil THEN Err(first.p, Nil, first.e)
        ELSE ParseExprLoop(first.p, first.v))

\* The STRING case of parseUnaryExpr, on the scanned token t.
parseStringOperand(t) ==
    IF isDateTimeString(t.lit)
    THEN Bind(ParseDateTime(t.lit), LAMBDA dt :
             IF dt.err = "" THEN Ok(t.p, TimeLiteral(dt.v))
             ELSE Bind(ParseRFC3339Nano(t.lit), LAMBDA rfc :
                      IF rfc.err = "" THEN Ok(t.p, TimeLiteral(rfc.v))
                      ELSE Malformed(t, Nil, <<"unable to parse datetime">>)))
    ELSE IF isDateString(t.lit)
         THEN Bind(ParseDate(t.lit), LAMBDA date :
                  IF date.err = "" THEN Ok(t.p, TimeLiteral(date.v))
                  ELSE Malformed(t, Nil, <<"unable to parse date">>))
    ELSE Ok(t.p, StringLiteral(t.lit))

\* The switch of parseUnaryExpr on the token t read after the unscan.
parseOperand(t) ==
    CASE t.tok = "IDENT" ->
             Bind(scan(t.p), LAMBDA next :
                 IF next.tok = "LPAREN" THEN parseCall(next.p, t.lit)
                 ELSE Ok(unscan(next.p), VarRef(t.lit)))
      [] t.tok = "STRING" -> parseStringOperand(t)
      [] t.tok = "NUMBER" ->
             Bind(ParseFloat(t.lit), LAMBDA num :
                 IF num.err # "" THEN Malformed(t, Nil, <<"unable to parse number">>)
                 ELSE Ok(t.p, NumberLiteral(num.v)))
      [] t.tok \in {"TRUE", "FALSE"} -> Ok(t.p, BooleanLiteral(t.tok = "TRUE"))
      [] t.tok = "DURATION_VAL" -> Ok(t.p, DurationLiteral(ParseDuration(t.lit).v))
      [] t.tok = "MUL" -> Ok(t.p, Wildcard)
      [] t.tok = "REGEX" ->
             Bind(RegexCompile(t.lit), LAMBDA re :
                 IF re.err # "" THEN Malformed(t, Nil, <<re.err>>)
                 ELSE Ok(t.p, RegexLiteral(re.v)))
      [] OTHER -> Unexpected(t, Nil, <<"identifier", "string", "number", "bool">>)

parseUnaryExpr(p0) ==
    Bind(scanIgnoreWhitespace(p0), LAMBDA t0 :
        IF t0.tok = "LPAREN"
        THEN Bind(ParseExpr(t0.p), LAMBDA inner :
                 IF inner.e # Nil THEN Err(inner.p, Nil, inner.e)
                 ELSE Bind(scanIgnoreWhitespace(inner.p), LAMBDA close :
                          IF close.tok # "RPAREN" THEN Unexpected(close, Nil, <<")">>)
                          ELSE Ok(close.p, ParenExpr(inner.v))))
        ELSE parseOperand(scanIgnoreWhitespace(unscan(t0.p))))

\* The argument loop of parseCall, args parsed so far.
RECURSIVE parseCallArgs(_, _)
parseCallArgs(p0, args) ==
    Bind(ParseExpr(p0), LAMBDA arg :
        IF arg.e # Nil THEN Err(arg.p, Nil, arg.e)
        ELSE Bind(scan(arg.p), LAMBDA t :
                 IF t.tok # "COMMA" THEN Ok(unscan(t.p), Append(args, arg.v))
                 ELSE parseCallArgs(Iterated(p0, t.p), Append(args, arg.v))))

parseCall(p0, name) ==
    Bind(scan(p0), LAMBDA t :
        IF t.tok = "RPAREN" THEN Ok(t.p, Call(name, <<>>))
        ELSE Bind(parseCallArgs(unscan(t.p), <<>>), LAMBDA args :
                 IF args.e # Nil THEN Err(args.p, Nil, args.e)
                 ELSE Bind(scan(args.p), LAMBDA close :
                          IF close.tok # "RPAREN" THEN Unexpected(close, Nil, <<")">>)
                          ELSE Ok(close.p, Call(name, args.v)))))

(***************************************************************************)
(* Literals and lists of the statements.                                   *)
(***************************************************************************)
\* The Error() of a *strconv.NumError.
NumError(fn, lit, err) == <<"strconv.", fn, ": parsing ">> \o lit \o <<": ", err>>

\* fmt.Sprintf("invalid value %d: must be %d <= n <= %d", n, min, max)
InvalidValue(n, min, max) ==
    <<"invalid value ">> \o FormatInt(n) \o <<": must be ">> \o FormatInt(min)
        \o <<" <= n <= ">> \o FormatInt(max)

\* parseInt as a slip would have it: the bounds not checked.
parseIntUnchecked(p0, min, max) ==
    Bind(scanIgnoreWhitespace(p0), LAMBDA t :
        IF t.tok # "NUMBER" THEN Unexpected(t, Zero64, <<"number">>)
        ELSE IF ContainsDot(t.lit)
             THEN Malformed(t, Zero64, <<"number must be an integer">>)
        ELSE Bind(ParseInt(t.lit), LAMBDA n :
                 IF n.err # "" THEN Malformed(t, Zero64, NumError("Atoi", t.lit, n.err))
                 ELSE Ok(t.p, n.n)))

parseInt(p0, min, max) ==
    Bind(scanIgnoreWhitespace(p0), LAMBDA t :
        IF t.tok # "NUMBER" THEN Unexpected(t, Zero64, <<"number">>)
        ELSE IF ContainsDot(t.lit)
             THEN Malformed(t, Zero64, <<"number must be an integer">>)
        ELSE Bind(ParseInt(t.lit), LAMBDA n :
                 IF n.err # "" THEN Malformed(t, Zero64, NumError("Atoi", t.lit, n.err))
                 ELSE IF LtS(n.n, min) \/ LtS(max, n.n)
                      THEN Malformed(t, Zero64, InvalidValue(n.n, min, max))
                 ELSE Ok(t.p, n.n)))

\* math.MaxUint32
MaxUint32 == <<Base - 1, Base - 1, 0, 0>>

\* parseUInt32 as a slip would have it: the number read at 64 bits.
parseUInt32Wide(p0) ==
    Bind(scanIgnoreWhitespace(p0), LAMBDA t :
        IF t.tok # "NUMBER" THEN Unexpected(t, Zero64, <<"number">>)
        ELSE Bind(ParseUint(t.lit, MaxUint64), LAMBDA n :
                 IF n.err # ""
                 THEN Malformed(t, Zero64, NumError("ParseUint", t.lit, n.err))
                 ELSE Ok(t.p, n.n)))

parseUInt32(p0) ==
    Bind(scanIgnoreWhitespace(p0), LAMBDA t :
        IF t.tok # "NUMBER" THEN Unexpected(t, Zero64, <<"number">>)
        ELSE Bind(ParseUint(t.lit, MaxUint32), LAMBDA n :
                 IF n.err # ""
                 THEN Malformed(t, Zero64, NumError("ParseUint", t.lit, n.err))
                 ELSE Ok(t.p, n.n)))

parseDuration(p0) ==
    Bind(scanIgnoreWhitespace(p0), LAMBDA t :
        IF t.tok # "DURATION_VAL" THEN Unexpected(t, Zero64, <<"duration">>)
        ELSE Bind(ParseDuration(t.lit), LAMBDA d :
                 IF d.e # Nil THEN Malformed(t, Zero64, <<d.e.s>>)
                 ELSE Ok(t.p, d.v)))

parseIdent(p0) ==
    Bind(scanIgnoreWhitespace(p0), LAMBDA t :
        IF t.tok # "IDENT" THEN Unexpected(t, <<>>, <<"identifier">>)
        ELSE Ok(t.p, t.lit))

\* The loop of parseIdentList, idents parsed so far.
RECURSIVE parseIdentListLoop(_, _)
parseIdentListLoop(p0, idents) ==
    Bind(scanIgnoreWhitespace(p0), LAMBDA t :
        IF t.tok # "COMMA" THEN Ok(unscan(t.p), idents)
        ELSE Bind(parseIdent(t.p), LAMBDA ident :
                 IF ident.e # Nil THEN Err(ident.p, Nil, ident.e)
                 ELSE parseIdentListLoop(Iterated(p0, ident.p),
                                         Append(idents, ident.v))))

parseIdentList(p0) ==
    Bind(parseIdent(p0), LAMBDA ident :
        IF ident.e # Nil THEN Err(ident.p, Nil, ident.e)
        ELSE parseIdentListLoop(ident.p, <<ident.v>>))

parseString(p0) ==
    Bind(scanIgnoreWhitespace(p0), LAMBDA t :
        IF t.tok # "STRING" THEN Unexpected(t, <<>>, <<"string">>)
        ELSE Ok(t.p, t.lit))

\* parseTokens: the error is the whole of what it returns.
RECURSIVE parseTokens(_, _)
parseTokens(p0, toks) ==
    IF toks = <<>> THEN Ok(p0, Nil)
    ELSE Bind(scanIgnoreWhitespace(p0), LAMBDA t :
             IF t.tok # Head(toks) THEN Unexpected(t, Nil, <<Head(toks)>>)
             ELSE parseTokens(t.p, Tail(toks)))

parsePrivilege(p0) ==
    Bind(scanIgnoreWhitespace(p0), LAMBDA t :
        CASE t.tok = "READ" -> Ok(t.p, "ReadPrivilege")
          [] t.tok = "WRITE" -> Ok(t.p, "WritePrivilege")
          [] t.tok = "ALL" ->
                 Bind(scanIgnoreWhitespace(t.p), LAMBDA next :
                     Ok(IF next.tok # "PRIVILEGES" THEN unscan(next.p) ELSE next.p,
                        "AllPrivileges"))
          [] OTHER -> Unexpected(t, "NoPrivileges",
                                 <<"READ", "WRITE", "ALL [PRIVILEGES]">>))

parseAlias(p0) ==
    Bind(scanIgnoreWhitespace(p0), LAMBDA t :
        IF t.tok # "AS" THEN Ok(unscan(t.p), <<>>)
        ELSE Bind(parseIdent(t.p), LAMBDA lit :
                 IF lit.e # Nil THEN Err(lit.p, <<>>, lit.e) ELSE Ok(lit.p, lit.v)))

\* parseCondition as a slip would have it: the token that is not WHERE not
\* pushed back.
parseConditionTakesToken(p0) ==
    Bind(scanIgnoreWhitespace(p0), LAMBDA t :
        IF t.tok # "WHERE" THEN Ok(t.p, Nil)
        ELSE Bind(ParseExpr(t.p), LAMBDA cond :
                 IF cond.e # Nil THEN Err(cond.p, Nil, cond.e) ELSE Ok(cond.p, cond.v)))

parseCondition(p0) ==
    Bind(scanIgnoreWhitespace(p0), LAMBDA t :
        IF t.tok # "WHERE" THEN Ok(unscan(t.p), Nil)
        ELSE Bind(ParseExpr(t.p), LAMBDA cond :
                 IF cond.e # Nil THEN Err(cond.p, Nil, cond.e) ELSE Ok(cond.p, cond.v)))

\* parseOptionalTokenAndInt as a slip would have it: any integer taken.
parseOptionalTokenAndIntAnyValue(p0, t) ==
    Bind(scanIgnoreWhitespace(p0), LAMBDA kw :
        IF kw.tok # t THEN Ok(unscan(kw.p), Zero64)
        ELSE Bind(scanIgnoreWhitespace(kw.p), LAMBDA num :
                 IF num.tok # "NUMBER" THEN Unexpected(num, Zero64, <<"number">>)
                 ELSE IF ContainsDot(num.lit)
                      THEN Malformed(num, Zero64,
                                     <<"fractional parts not allowed in ", t>>)
                 ELSE Ok(num.p, ParseInt(num.lit).n)))

parseOptionalTokenAndInt(p0, t) ==
    Bind(scanIgnoreWhitespace(p0), LAMBDA kw :
        IF kw.tok # t THEN Ok(unscan(kw.p), Zero64)
        ELSE Bind(scanIgnoreWhitespace(kw.p), LAMBDA num :
                 IF num.tok # "NUMBER" THEN Unexpected(num, Zero64, <<"number">>)
                 ELSE IF ContainsDot(num.lit)
                      THEN Malformed(num, Zero64,
                                     <<"fractional parts not allowed in ", t>>)
                 ELSE Bind(ParseInt(num.lit).n, LAMBDA n :
                          IF LtS(n, U64(1))
                          THEN Malformed(num, Zero64, <<t, " must be > 0">>)
                          ELSE Ok(num.p, n))))

(***************************************************************************)
(* The clauses of SELECT.                                                  *)
(***************************************************************************)
parseSortField(p0) ==
    Bind(scanIgnoreWhitespace(p0), LAMBDA t :
        IF t.tok \in {"IDENT", "STRING"}
        THEN Bind(scanIgnoreWhitespace(t.p), LAMBDA dir :
                 IF dir.tok \notin {"ASC", "DESC"}
                 THEN Ok(unscan(dir.p),
                         [k |-> "SortField", Name |-> t.lit, Ascending |-> FALSE])
                 ELSE Ok(dir.p, [k |-> "SortField", Name |-> t.lit,
                                 Ascending |-> dir.tok = "ASC"]))
        ELSE IF t.tok \notin {"ASC", "DESC"}
             THEN Unexpected(t, Nil, <<"identifier, ASC, or DESC">>)
        ELSE Ok(t.p, [k |-> "SortField", Name |-> <<>>, Ascending |-> t.tok = "ASC"]))

\* The loop of parseSortFields, fields parsed so far.
RECURSIVE parseSortFieldsLoop(_, _)
parseSortFieldsLoop(p0, fields) ==
    Bind(scanIgnoreWhitespace(p0), LAMBDA t :
        IF t.tok # "COMMA" THEN Ok(unscan(t.p), fields)
        ELSE Bind(parseSortField(t.p), LAMBDA field :
                 IF field.e # Nil THEN Err(field.p, Nil, field.e)
                 ELSE parseSortFieldsLoop(Iterated(p0, field.p),
                                          Append(fields, field.v))))

parseSortFields(p0) ==
    Bind(parseSortField(p0), LAMBDA field :
        IF field.e # Nil THEN Err(field.p, Nil, field.e)
        ELSE parseSortFieldsLoop(field.p, <<field.v>>))

parseOrderBy(p0) ==
    Bind(scanIgnoreWhitespace(p0), LAMBDA t :
        IF t.tok # "ORDER" THEN Ok(unscan(t.p), Nil)
        ELSE Bind(scanIgnoreWhitespace(t.p), LAMBDA by :
                 IF by.tok # "BY" THEN Unexpected(by, Nil, <<"BY">>)
                 ELSE Bind(parseSortFields(by.p), LAMBDA fields :
                          IF fields.e # Nil THEN Err(fields.p, Nil, fields.e)
                          ELSE Ok(fields.p, fields.v))))

UpperCase ==
    <<"A", "B", "C", "D", "E", "F", "G", "H", "I", "J", "K", "L", "M",
      "N", "O", "P", "Q", "R", "S", "T", "U", "V", "W", "X", "Y", "Z">>

LowerCase ==
    <<"a", "b", "c", "d", "e", "f", "g", "h", "i", "j", "k", "l", "m",
      "n", "o", "p", "q", "r", "s", "t", "u", "v", "w", "x", "y", "z">>

\* strings.ToLower
ToLower(s) ==
    [i \in 1..Len(s) |->
        IF \E j \in 1..26 : UpperCase[j] = s[i]
        THEN LowerCase[CHOOSE j \in 1..26 : UpperCase[j] = s[i]]
        ELSE s[i]]

Measurement(name) == [k |-> "Measurement", Name |-> name]

\* The measurement list of parseSource, measurements parsed so far.
RECURSIVE parseMeasurements(_, _)
parseMeasurements(p0, measurements) ==
    Bind(scanIgnoreWhitespace(p0), LAMBDA t :
        IF t.tok # "IDENT" THEN Unexpected(t, Nil, <<"measurement name">>)
        ELSE Bind(scan(t.p), LAMBDA next :
                 IF next.tok # "COMMA"
                 THEN Ok(unscan(next.p), Append(measurements, Measurement(t.lit)))
                 ELSE parseMeasurements(Iterated(p0, next.p),
                                        Append(measurements, Measurement(t.lit)))))

\* parseSource from the check of the source type on: t is the first token.
parseJoinOrMerge(t, p0) ==
    Bind(ToLower(t.lit), LAMBDA sourceType :
        IF sourceType # <<"j", "o", "i", "n">> /\ sourceType # <<"m", "e", "r", "g", "e">>
        THEN Err(p0, Nil, MessageError(<<"unknown merge type: ">> \o sourceType, t.pos))
        ELSE Bind(parseMeasurements(p0, <<>>), LAMBDA ms :
                 IF ms.e # Nil THEN Err(ms.p, Nil, ms.e)
                 ELSE Bind(scanIgnoreWhitespace(ms.p), LAMBDA close :
                          IF close.tok # "RPAREN" THEN Unexpected(close, Nil, <<")">>)
                          ELSE IF sourceType = <<"j", "o", "i", "n">>
                               THEN Ok(close.p, [k |-> "Join", Measurements |-> ms.v])
                          ELSE Ok(close.p, [k |-> "Merge", Measurements |-> ms.v]))))

parseSource(p0) ==
    Bind(scanIgnoreWhitespace(p0), LAMBDA t :
        IF t.tok # "IDENT" THEN Unexpected(t, Nil, <<"identifier">>)
        ELSE Bind(scan(t.p), LAMBDA next :
                 IF t.tok = "STRING" \/ (t.tok = "IDENT" /\ next.tok # "LPAREN")
                 THEN Ok(unscan(next.p), Measurement(t.lit))
                 ELSE parseJoinOrMerge(t, next.p)))

parseField(p0) ==
    Bind(ParseExpr(p0), LAMBDA e :
        IF e.e # Nil THEN Err(e.p, Nil, e.e)
        ELSE Bind(parseAlias(e.p), LAMBDA alias :
                 IF alias.e # Nil THEN Err(alias.p, Nil, alias.e)
                 ELSE Ok(consumeWhitespace(alias.p),
                         [k |-> "Field", Expr |-> e.v, Alias |-> alias.v])))

\* The loop of parseFields, fields parsed so far.
RECURSIVE parseFieldsLoop(_, _)
parseFieldsLoop(p0, fields) ==
    Bind(parseField(p0), LAMBDA f :
        IF f.e # Nil THEN Err(f.p, Nil, f.e)
        ELSE Bind(scan(f.p), LAMBDA t :
                 IF t.tok # "COMMA" THEN Ok(unscan(t.p), Append(fields, f.v))
                 ELSE parseFieldsLoop(Iterated(p0, t.p), Append(fields, f.v))))

parseFields(p0) ==
    Bind(scanIgnoreWhitespace(p0), LAMBDA t :
        IF t.tok = "MUL"
        THEN Ok(t.p, <<[k |-> "Field", Expr |-> Wildcard, Alias |-> <<>>]>>)
        ELSE parseFieldsLoop(unscan(t.p), <<>>))

parseDimension(p0) ==
    Bind(ParseExpr(p0), LAMBDA e :
        IF e.e # Nil THEN Err(e.p, Nil, e.e)
        ELSE Ok(consumeWhitespace(e.p), [k |-> "Dimension", Expr |-> e.v]))

\* The loop of parseDimensions, dimensions parsed so far.
RECURSIVE parseDimensionsLoop(_, _)
parseDimensionsLoop(p0, dimensions) ==
    Bind(parseDimension(p0), LAMBDA d :
        IF d.e # Nil THEN Err(d.p, Nil, d.e)
        ELSE Bind(scan(d.p), LAMBDA t :
                 IF t.tok # "COMMA" THEN Ok(unscan(t.p), Append(dimensions, d.v))
                 ELSE parseDimensionsLoop(Iterated(p0, t.p), Append(dimensions, d.v))))

parseDimensions(p0) ==
    Bind(scanIgnoreWhitespace(p0), LAMBDA t :
        IF t.tok # "GROUP" THEN Ok(unscan(t.p), Nil)
        ELSE Bind(scanIgnoreWhitespace(t.p), LAMBDA by :
                 IF by.tok # "BY" THEN Unexpected(by, Nil, <<"BY">>)
                 ELSE parseDimensionsLoop(by.p, <<>>)))

\* tr: whether the INTO clause is required.
parseTarget(p0, tr) ==
    Bind(scanIgnoreWhitespace(p0), LAMBDA t :
        IF t.tok # "INTO"
        THEN IF tr = "targetRequired" THEN Unexpected(t, Nil, <<"INTO">>)
             ELSE Ok(unscan(t.p), Nil)
        ELSE Bind(parseIdent(t.p), LAMBDA ident :
                 IF ident.e # Nil THEN Err(ident.p, Nil, ident.e)
                 ELSE Bind(scanIgnoreWhitespace(ident.p), LAMBDA on :
                          IF on.tok # "ON"
                          THEN Ok(unscan(on.p), [k |-> "Target", Measurement |-> ident.v,
                                                 Database |-> <<>>])
                          ELSE Bind(parseIdent(on.p), LAMBDA db :
                                   IF db.e # Nil THEN Err(db.p, Nil, db.e)
                                   ELSE Ok(db.p, [k |-> "Target",
                                                  Measurement |-> ident.v,
                                                  Database |-> db.v])))))

(***************************************************************************)
(* SELECT, DELETE and the SHOW statements.                                 *)
(***************************************************************************)
\* parseSelectStatement as a slip would have it: OFFSET looked for before
\* LIMIT.
parseSelectStatementOffsetFirst(p0, tr) ==
    Bind(parseFields(p0), LAMBDA fields :
    IF fields.e # Nil THEN Err(fields.p, Nil, fields.e) ELSE
    Bind(parseTarget(fields.p, tr), LAMBDA target :
    IF target.e # Nil THEN Err(target.p, Nil, target.e) ELSE
    Bind(scanIgnoreWhitespace(target.p), LAMBDA from :
    IF from.tok # "FROM" THEN Unexpected(from, Nil, <<"FROM">>) ELSE
    Bind(parseSource(from.p), LAMBDA source :
    IF source.e # Nil THEN Err(source.p, Nil, source.e) ELSE
    Bind(parseCondition(source.p), LAMBDA condition :
    IF condition.e # Nil THEN Err(condition.p, Nil, condition.e) ELSE
    Bind(parseDimensions(condition.p), LAMBDA dimensions :
    IF dimensions.e # Nil THEN Err(dimensions.p, Nil, dimensions.e) ELSE
    Bind(parseOrderBy(dimensions.p), LAMBDA sortFields :
    IF sortFields.e # Nil THEN Err(sortFields.p, Nil, sortFields.e) ELSE
    Bind(parseOptionalTokenAndInt(sortFields.p, "OFFSET"), LAMBDA offset :
    IF offset.e # Nil THEN Err(offset.p, Nil, offset.e) ELSE
    Bind(parseOptionalTokenAndInt(offset.p, "LIMIT"), LAMBDA limit :
    IF limit.e # Nil THEN Err(limit.p, Nil, limit.e) ELSE
    Ok(limit.p,
       [k |-> "SelectStatement", Fields |-> fields.v, Target |-> target.v,
        Source |-> source.v, Condition |-> condition.v,
        Dimensions |-> dimensions.v, SortFields |-> sortFields.v,
        Limit |-> limit.v, Offset |-> offset.v]))))))))))

parseSelectStatement(p0, tr) ==
    Bind(parseFields(p0), LAMBDA fields :
    IF fields.e # Nil THEN Err(fields.p, Nil, fields.e) ELSE
    Bind(parseTarget(fields.p, tr), LAMBDA target :
    IF target.e # Nil THEN Err(target.p, Nil, target.e) ELSE
    Bind(scanIgnoreWhitespace(target.p), LAMBDA from :
    IF from.tok # "FROM" THEN Unexpected(from, Nil, <<"FROM">>) ELSE
    Bind(parseSource(from.p), LAMBDA source :
    IF source.e # Nil THEN Err(source.p, Nil, source.e) ELSE
    Bind(parseCondition(source.p), LAMBDA condition :
    IF condition.e # Nil THEN Err(condition.p, Nil, condition.e) ELSE
    Bind(parseDimensions(condition.p), LAMBDA dimensions :
    IF dimensions.e # Nil THEN Err(dimensions.p, Nil, dimensions.e) ELSE
    Bind(parseOrderBy(dimensions.p), LAMBDA sortFields :
    IF sortFields.e # Nil THEN Err(sortFields.p, Nil, sortFields.e) ELSE
    Bind(parseOptionalTokenAndInt(sortFields.p, "LIMIT"), LAMBDA limit :
    IF limit.e # Nil THEN Err(limit.p, Nil, limit.e) ELSE
    Bind(parseOptionalTokenAndInt(limit.p, "OFFSET"), LAMBDA offset :
    IF offset.e # Nil THEN Err(offset.p, Nil, offset.e) ELSE
    Ok(offset.p,
       [k |-> "SelectStatement", Fields |-> fields.v, Target |-> target.v,
        Source |-> source.v, Condition |-> condition.v,
        Dimensions |-> dimensions.v, SortFields |-> sortFields.v,
        Limit |-> limit.v, Offset |-> offset.v]))))))))))

parseDeleteStatement(p0) ==
    Bind(scanIgnoreWhitespace(p0), LAMBDA from :
    IF from.tok # "FROM" THEN Unexpected(from, Nil, <<"FROM">>) ELSE
    Bind(parseSource(from.p), LAMBDA source :
    IF source.e # Nil THEN Err(source.p, Nil, source.e) ELSE
    Bind(parseCondition(source.p), LAMBDA condition :
    IF condition.e # Nil THEN Err(condition.p, Nil, condition.e) ELSE
    Ok(condition.p, [k |-> "DeleteStatement", Source |-> source.v,
                     Condition |-> condition.v]))))

\* The optional FROM clause that opens several statements.
parseOptionalSource(p0) ==
    Bind(scanIgnoreWhitespace(p0), LAMBDA t :
        IF t.tok = "FROM" THEN parseSource(t.p) ELSE Ok(unscan(t.p), Nil))

parseShowSeriesStatement(p0) ==
    Bind(parseOptionalSource(p0), LAMBDA source :
    IF source.e # Nil THEN Err(source.p, Nil, source.e) ELSE
    Bind(parseCondition(source.p), LAMBDA condition :
    IF condition.e # Nil THEN Err(condition.p, Nil, condition.e) ELSE
    Bind(parseOrderBy(condition.p), LAMBDA sortFields :
    IF sortFields.e # Nil THEN Err(sortFields.p, Nil, sortFields.e) ELSE
    Bind(parseOptionalTokenAndInt(sortFields.p, "LIMIT"), LAMBDA limit :
    IF limit.e # Nil THEN Err(limit.p, Nil, limit.e) ELSE
    Bind(parseOptionalTokenAndInt(limit.p, "OFFSET"), LAMBDA offset :
    IF offset.e # Nil THEN Err(offset.p, Nil, offset.e) ELSE
    Ok(offset.p,
       [k |-> "ShowSeriesStatement", Source |-> source.v,
        Condition |-> condition.v, SortFields |-> sortFields.v,
        Limit |-> limit.v, Offset |-> offset.v]))))))

parseShowMeasurementsStatement(p0) ==
    Bind(parseCondition(p0), LAMBDA condition :
    IF condition.e # Nil THEN Err(condition.p, Nil, condition.e) ELSE
    Bind(parseOrderBy(condition.p), LAMBDA sortFields :
    IF sortFields.e # Nil THEN Err(sortFields.p, Nil, sortFields.e) ELSE
    Bind(parseOptionalTokenAndInt(sortFields.p, "LIMIT"), LAMBDA limit :
    IF limit.e # Nil THEN Err(limit.p, Nil, limit.e) ELSE
    Bind(parseOptionalTokenAndInt(limit.p, "OFFSET"), LAMBDA offset :
    IF offset.e # Nil THEN Err(offset.p, Nil, offset.e) ELSE
    Ok(offset.p,
       [k |-> "ShowMeasurementsStatement", Condition |-> condition.v,
        SortFields |-> sortFields.v, Limit |-> limit.v, Offset |-> offset.v])))))

parseShowRetentionPoliciesStatement(p0) ==
    Bind(parseIdent(p0), LAMBDA ident :
        IF ident.e # Nil THEN Err(ident.p, Nil, ident.e)
        ELSE Ok(ident.p, [k |-> "ShowRetentionPoliciesStatement",
                          Database |-> ident.v]))

parseShowTagKeysStatement(p0) ==
    Bind(parseOptionalSource(p0), LAMBDA source :
    IF source.e # Nil THEN Err(source.p, Nil, source.e) ELSE
    Bind(parseCondition(source.p), LAMBDA condition :
    IF condition.e # Nil THEN Err(condition.p, Nil, condition.e) ELSE
    Bind(parseOrderBy(condition.p), LAMBDA sortFields :
    IF sortFields.e # Nil THEN Err(sortFields.p, Nil, sortFields.e) ELSE
    Bind(parseOptionalTokenAndInt(sortFields.p, "LIMIT"), LAMBDA limit :
    IF limit.e # Nil THEN Err(limit.p, Nil, limit.e) ELSE
    Bind(parseOptionalTokenAndInt(limit.p, "OFFSET"), LAMBDA offset :
    IF offset.e # Nil THEN Err(offset.p, Nil, offset.e) ELSE
    Ok(offset.p,
       [k |-> "ShowTagKeysStatement", Source |-> source.v,
        Condition |-> condition.v, SortFields |-> sortFields.v,
        Limit |-> limit.v, Offset |-> offset.v]))))))

\* parseTagKeys after WITH KEY: IN (list) or = key.
parseTagKeyList(p0) ==
    Bind(scanIgnoreWhitespace(p0), LAMBDA t :
        IF t.tok = "IN"
        THEN Bind(scanIgnoreWhitespace(t.p), LAMBDA open :
                 IF open.tok # "LPAREN" THEN Unexpected(open, Nil, <<"(">>)
                 ELSE Bind(parseIdentList(open.p), LAMBDA tagKeys :
                          IF tagKeys.e # Nil THEN Err(tagKeys.p, Nil, tagKeys.e)
                          ELSE Bind(scanIgnoreWhitespace(tagKeys.p), LAMBDA close :
                                   IF close.tok # "RPAREN"
                                   THEN Unexpected(close, Nil, <<"(">>)
                                   ELSE Ok(close.p, tagKeys.v))))
        ELSE IF t.tok = "EQ"
             THEN Bind(parseIdent(t.p), LAMBDA ident :
                      IF ident.e # Nil THEN Err(ident.p, Nil, ident.e)
                      ELSE Ok(ident.p, <<ident.v>>))
        ELSE Unexpected(t, Nil, <<"IN", "=">>))

parseTagKeys(p0) ==
    Bind(parseTokens(p0, <<"WITH", "KEY">>), LAMBDA with :
        IF with.e # Nil THEN Err(with.p, Nil, with.e) ELSE parseTagKeyList(with.p))

parseShowTagValuesStatement(p0) ==
    Bind(parseOptionalSource(p0), LAMBDA source :
    IF source.e # Nil THEN Err(source.p, Nil, source.e) ELSE
    Bind(parseTagKeys(source.p), LAMBDA tagKeys :
    IF tagKeys.e # Nil THEN Err(tagKeys.p, Nil, tagKeys.e) ELSE
    Bind(parseCondition(tagKeys.p), LAMBDA condition :
    IF condition.e # Nil THEN Err(condition.p, Nil, condition.e) ELSE
    Bind(parseOrderBy(condition.p), LAMBDA sortFields :
    IF sortFields.e # Nil THEN Err(sortFields.p, Nil, sortFields.e) ELSE
    Bind(parseOptionalTokenAndInt(sortFields.p, "LIMIT"), LAMBDA limit :
    IF limit.e # Nil THEN Err(limit.p, Nil, limit.e) ELSE
    Bind(parseOptionalTokenAndInt(limit.p, "OFFSET"), LAMBDA offset :
    IF offset.e # Nil THEN Err(offset.p, Nil, offset.e) ELSE
    Ok(offset.p,
       [k |-> "ShowTagValuesStatement", Source |-> source.v,
        TagKeys |-> tagKeys.v, Condition |-> condition.v,
        SortFields |-> sortFields.v, Limit |-> limit.v,
        Offset |-> offset.v])))))))

parseShowUsersStatement(p0) == Ok(p0, [k |-> "ShowUsersStatement"])

parseShowFieldKeysStatement(p0) ==
    Bind(parseOptionalSource(p0), LAMBDA source :
    IF source.e # Nil THEN Err(source.p, Nil, source.e) ELSE
    Bind(parseOrderBy(source.p), LAMBDA sortFields :
    IF sortFields.e # Nil THEN Err(sortFields.p, Nil, sortFields.e) ELSE
    Bind(parseOptionalTokenAndInt(sortFields.p, "LIMIT"), LAMBDA limit :
    IF limit.e # Nil THEN Err(limit.p, Nil, limit.e) ELSE
    Bind(parseOptionalTokenAndInt(limit.p, "OFFSET"), LAMBDA offset :
    IF offset.e # Nil THEN Err(offset.p, Nil, offset.e) ELSE
    Ok(offset.p,
       [k |-> "ShowFieldKeysStatement", Source |-> source.v,
        SortFields |-> sortFields.v, Limit |-> limit.v, Offset |-> offset.v])))))

parseShowContinuousQueriesStatement(p0) ==
    Bind(scanIgnoreWhitespace(p0), LAMBDA t :
        IF t.tok # "QUERIES" THEN Unexpected(t, Nil, <<"QUERIES">>)
        ELSE Ok(t.p, [k |-> "ShowContinuousQueriesStatement"]))

parseShowDatabasesStatement(p0) == Ok(p0, [k |-> "ShowDatabasesStatement"])

(***************************************************************************)
(* DROP, CREATE, ALTER, GRANT and REVOKE.                                  *)
(***************************************************************************)
parseDropMeasurementStatement(p0) ==
    Bind(parseIdent(p0), LAMBDA lit :
        IF lit.e # Nil THEN Err(lit.p, Nil, lit.e)
        ELSE Ok(lit.p, [k |-> "DropMeasurementStatement", Name |-> lit.v]))

parseDropSeriesStatement(p0) ==
    Bind(parseOptionalSource(p0), LAMBDA source :
    IF source.e # Nil THEN Err(source.p, Nil, source.e) ELSE
    Bind(parseCondition(source.p), LAMBDA condition :
    IF condition.e # Nil THEN Err(condition.p, Nil, condition.e) ELSE
    Bind(IF condition.v = Nil /\ source.v = Nil THEN parseUInt32(condition.p)
         ELSE Ok(condition.p, Zero64), LAMBDA id :
    IF id.e # Nil THEN Err(id.p, Nil, id.e) ELSE
    Ok(id.p, [k |-> "DropSeriesStatement", Source |-> source.v,
              Condition |-> condition.v, SeriesID |-> id.v]))))

parseCreateDatabaseStatement(p0) ==
    Bind(parseIdent(p0), LAMBDA lit :
        IF lit.e # Nil THEN Err(lit.p, Nil, lit.e)
        ELSE Ok(lit.p, [k |-> "CreateDatabaseStatement", Name |-> lit.v]))

parseDropDatabaseStatement(p0) ==
    Bind(parseIdent(p0), LAMBDA lit :
        IF lit.e # Nil THEN Err(lit.p, Nil, lit.e)
        ELSE Ok(lit.p, [k |-> "DropDatabaseStatement", Name |-> lit.v]))

parseDropRetentionPolicyStatement(p0) ==
    Bind(parseIdent(p0), LAMBDA ident :
    IF ident.e # Nil THEN Err(ident.p, Nil, ident.e) ELSE
    Bind(scanIgnoreWhitespace(ident.p), LAMBDA on :
    IF on.tok # "ON" THEN Unexpected(on, Nil, <<"ON">>) ELSE
    Bind(parseIdent(on.p), LAMBDA db :
    IF db.e # Nil THEN Err(db.p, Nil, db.e) ELSE
    Ok(db.p, [k |-> "DropRetentionPolicyStatement", Name |-> ident.v,
              Database |-> db.v]))))

parseCreateUserStatement(p0) ==
    Bind(parseIdent(p0), LAMBDA ident :
    IF ident.e # Nil THEN Err(ident.p, Nil, ident.e) ELSE
    Bind(parseTokens(ident.p, <<"WITH", "PASSWORD">>), LAMBDA with :
    IF with.e # Nil THEN Err(with.p, Nil, with.e) ELSE
    Bind(parseString(with.p), LAMBDA password :
    IF password.e # Nil THEN Err(password.p, Nil, password.e) ELSE
    Bind(scanIgnoreWhitespace(password.p), LAMBDA t :
    IF t.tok # "WITH"
    THEN Ok(unscan(t.p), [k |-> "CreateUserStatement", Name |-> ident.v,
                          Password |-> password.v, Privilege |-> Nil]) ELSE
    Bind(parseTokens(t.p, <<"ALL", "PRIVILEGES">>), LAMBDA all :
    IF all.e # Nil THEN Err(all.p, Nil, all.e) ELSE
    Ok(all.p, [k |-> "CreateUserStatement", Name |-> ident.v,
               Password |-> password.v, Privilege |-> <<"AllPrivileges">>]))))))

parseDropUserStatement(p0) ==
    Bind(parseIdent(p0), LAMBDA lit :
        IF lit.e # Nil THEN Err(lit.p, Nil, lit.e)
        ELSE Ok(lit.p, [k |-> "DropUserStatement", Name |-> lit.v]))

parseDropContinuousQueryStatement(p0) ==
    Bind(scanIgnoreWhitespace(p0), LAMBDA t :
    IF t.tok # "QUERY" THEN Unexpected(t, Nil, <<"QUERY">>) ELSE
    Bind(parseIdent(t.p), LAMBDA lit :
    IF lit.e # Nil THEN Err(lit.p, Nil, lit.e) ELSE
    Ok(lit.p, [k |-> "DropContinuousQueryStatement", Name |-> lit.v])))

parseCreateRetentionPolicyStatement(p0) ==
    Bind(parseIdent(p0), LAMBDA ident :
    IF ident.e # Nil THEN Err(ident.p, Nil, ident.e) ELSE
    Bind(scanIgnoreWhitespace(ident.p), LAMBDA on :
    IF on.tok # "ON" THEN Unexpected(on, Nil, <<"ON">>) ELSE
    Bind(parseIdent(on.p), LAMBDA db :
    IF db.e # Nil THEN Err(db.p, Nil, db.e) ELSE
    Bind(scanIgnoreWhitespace(db.p), LAMBDA dur0 :
    IF dur0.tok # "DURATION" THEN Unexpected(dur0, Nil, <<"DURATION">>) ELSE
    Bind(parseDuration(dur0.p), LAMBDA d :
    IF d.e # Nil THEN Err(d.p, Nil, d.e) ELSE
    Bind(scanIgnoreWhitespace(d.p), LAMBDA repl :
    IF repl.tok # "REPLICATION" THEN Unexpected(repl, Nil, <<"REPLICATION">>) ELSE
    Bind(parseInt(repl.p, U64(1), MaxInt32), LAMBDA n :
    IF n.e # Nil THEN Err(n.p, Nil, n.e) ELSE
    Bind(scanIgnoreWhitespace(n.p), LAMBDA dflt :
    Ok(IF dflt.tok = "DEFAULT" THEN dflt.p ELSE unscan(dflt.p),
       [k |-> "CreateRetentionPolicyStatement", Name |-> ident.v,
        Database |-> db.v, Duration |-> d.v, Replication |-> n.v,
        Default |-> dflt.tok = "DEFAULT"])))))))))

maxNumOptions == 3

\* The option loop as a slip would have it: DEFAULT taken as the last option.
RECURSIVE parseAlterOptionsDefaultLast(_, _, _)
parseAlterOptionsDefaultLast(p0, stmt, i) ==
    IF ~(i < maxNumOptions) THEN Ok(p0, stmt)
    ELSE Bind(scanIgnoreWhitespace(p0), LAMBDA t :
        CASE t.tok = "DURATION" ->
                 Bind(parseDuration(t.p), LAMBDA d :
                     IF d.e # Nil THEN Err(d.p, Nil, d.e)
                     ELSE parseAlterOptionsDefaultLast(
                              d.p, [stmt EXCEPT !.Duration = d.v], i + 1))
          [] t.tok = "REPLICATION" ->
                 Bind(parseInt(t.p, U64(1), MaxInt32), LAMBDA n :
                     IF n.e # Nil THEN Err(n.p, Nil, n.e)
                     ELSE parseAlterOptionsDefaultLast(
                              n.p, [stmt EXCEPT !.Replication = n.v], i + 1))
          [] t.tok = "DEFAULT" -> Ok(t.p, [stmt EXCEPT !.Default = TRUE])
          [] OTHER ->
                 IF i < 1
                 THEN Unexpected(t, Nil, <<"DURATION", "RETENTION", "DEFAULT">>)
                 ELSE Ok(unscan(t.p), stmt))

\* The option loop of parseAlterRetentionPolicyStatement at its i-th round.
RECURSIVE parseAlterOptions(_, _, _)
parseAlterOptions(p0, stmt, i) ==
    IF ~(i < maxNumOptions) THEN Ok(p0, stmt)
    ELSE Bind(scanIgnoreWhitespace(p0), LAMBDA t :
        CASE t.tok = "DURATION" ->
                 Bind(parseDuration(t.p), LAMBDA d :
                     IF d.e # Nil THEN Err(d.p, Nil, d.e)
                     ELSE parseAlterOptions(d.p, [stmt EXCEPT !.Duration = d.v], i + 1))
          [] t.tok = "REPLICATION" ->
                 Bind(parseInt(t.p, U64(1), MaxInt32), LAMBDA n :
                     IF n.e # Nil THEN Err(n.p, Nil, n.e)
                     ELSE parseAlterOptions(n.p, [stmt EXCEPT !.Replication = n.v],
                                            i + 1))
          [] t.tok = "DEFAULT" ->
                 parseAlterOptions(t.p, [stmt EXCEPT !.Default = TRUE], i + 1)
          [] OTHER ->
                 IF i < 1
                 THEN Unexpected(t, Nil, <<"DURATION", "RETENTION", "DEFAULT">>)
                 ELSE Ok(unscan(t.p), stmt))

parseAlterRetentionPolicyStatement(p0) ==
    Bind(parseIdent(p0), LAMBDA ident :
    IF ident.e # Nil THEN Err(ident.p, Nil, ident.e) ELSE
    Bind(scanIgnoreWhitespace(ident.p), LAMBDA on :
    IF on.tok # "ON" THEN Unexpected(on, Nil, <<"ON">>) ELSE
    Bind(parseIdent(on.p), LAMBDA db :
    IF db.e # Nil THEN Err(db.p, Nil, db.e) ELSE
    parseAlterOptions(db.p, [k |-> "AlterRetentionPolicyStatement",
                             Name |-> ident.v, Database |-> db.v,
                             Duration |-> Nil, Replication |-> Nil,
                             Default |-> FALSE], 0))))

parseRevokeStatement(p0) ==
    Bind(parsePrivilege(p0), LAMBDA priv :
    IF priv.e # Nil THEN Err(priv.p, Nil, priv.e) ELSE
    Bind(scanIgnoreWhitespace(priv.p), LAMBDA t :
    IF t.tok # "ON" /\ priv.v # "AllPrivileges" THEN Unexpected(t, Nil, <<"ON">>) ELSE
    Bind(IF t.tok = "ON" THEN parseIdent(t.p) ELSE Ok(t.p, <<>>), LAMBDA on :
    IF on.e # Nil THEN Err(on.p, Nil, on.e) ELSE
    Bind(IF t.tok = "ON" THEN [scanIgnoreWhitespace(on.p) EXCEPT !.lit = t.lit]
         ELSE t, LAMBDA from :
    IF from.tok # "FROM" THEN Unexpected(from, Nil, <<"FROM">>) ELSE
    Bind(parseIdent(from.p), LAMBDA user :
    IF user.e # Nil THEN Err(user.p, Nil, user.e) ELSE
    Ok(user.p, [k |-> "RevokeStatement", Privilege |-> priv.v, On |-> on.v,
                User |-> user.v]))))))

\* parseGrantStatement as a slip would have it: the ON clause optional for
\* every privilege.
parseGrantStatementAnyPrivilege(p0) ==
    Bind(parsePrivilege(p0), LAMBDA priv :
    IF priv.e # Nil THEN Err(priv.p, Nil, priv.e) ELSE
    Bind(scanIgnoreWhitespace(priv.p), LAMBDA t :
    Bind(IF t.tok = "ON" THEN parseIdent(t.p) ELSE Ok(t.p, <<>>), LAMBDA on :
    IF on.e # Nil THEN Err(on.p, Nil, on.e) ELSE
    Bind(IF t.tok = "ON" THEN [scanIgnoreWhitespace(on.p) EXCEPT !.lit = t.lit]
         ELSE t, LAMBDA to :
    IF to.tok # "TO" THEN Unexpected(to, Nil, <<"TO">>) ELSE
    Bind(parseIdent(to.p), LAMBDA user :
    IF user.e # Nil THEN Err(user.p, Nil, user.e) ELSE
    Ok(user.p, [k |-> "GrantStatement", Privilege |-> priv.v, On |-> on.v,
                User |-> user.v]))))))

parseGrantStatement(p0) ==
    Bind(parsePrivilege(p0), LAMBDA priv :
    IF priv.e # Nil THEN Err(priv.p, Nil, priv.e) ELSE
    Bind(scanIgnoreWhitespace(priv.p), LAMBDA t :
    IF t.tok # "ON" /\ priv.v # "AllPrivileges" THEN Unexpected(t, Nil, <<"ON">>) ELSE
    Bind(IF t.tok = "ON" THEN parseIdent(t.p) ELSE Ok(t.p, <<>>), LAMBDA on :
    IF on.e # Nil THEN Err(on.p, Nil, on.e) ELSE
    Bind(IF t.tok = "ON" THEN [scanIgnoreWhitespace(on.p) EXCEPT !.lit = t.lit]
         ELSE t, LAMBDA to :
    IF to.tok # "TO" THEN Unexpected(to, Nil, <<"TO">>) ELSE
    Bind(parseIdent(to.p), LAMBDA user :
    IF user.e # Nil THEN Err(user.p, Nil, user.e) ELSE
    Ok(user.p, [k |-> "GrantStatement", Privilege |-> priv.v, On |-> on.v,
                User |-> user.v]))))))

(***************************************************************************)
(* CREATE CONTINUOUS QUERY.                                                *)
(***************************************************************************)
\* SelectStatement.Aggregated: a call among the expressions of the fields.
Aggregated(stmt) ==
    \E i \in 1..Len(stmt.Fields) : stmt.Fields[i].Expr.k = "Call"

\* errors.New(text)
errorsNew(msg) == [s |-> msg]

\* The interval of the dimension d when it is a call of time, with its error.
timeInterval(d) ==
    IF Len(d.Expr.Args) # 1
    THEN [v |-> Zero64, e |-> errorsNew("time dimension expected one argument")]
    ELSE IF d.Expr.Args[1].k # "DurationLiteral"
         THEN [v |-> Zero64,
               e |-> errorsNew("time dimension must have one duration argument")]
    ELSE [v |-> d.Expr.Args[1].Val, e |-> Nil]

\* SelectStatement.GroupByInterval: the interval of the first dimension that
\* is a call of time, zero when there is none.
GroupByInterval(stmt) ==
    Bind({i \in 1..Len(stmt.Dimensions) :
             /\ stmt.Dimensions[i].Expr.k = "Call"
             /\ ToLower(stmt.Dimensions[i].Expr.Name) = <<"t", "i", "m", "e">>},
         LAMBDA calls :
        IF calls = {} THEN [v |-> Zero64, e |-> Nil]
        ELSE timeInterval(stmt.Dimensions[CHOOSE i \in calls :
                                              \A j \in calls : i <= j]))

\* The check of parseCreateContinuousQueryStatement on the interval d of an
\* aggregated source: the error it reports, Nil when it passes.
\* checkInterval as a slip would have it: an interval of zero let through.
checkIntervalErrorOnly(p0, d) ==
    IF d.e # Nil
    THEN Unexpected(scanIgnoreWhitespace(unscan(unscan(p0))), Nil,
                    <<"GROUP BY time(...)", d.e.s>>)
    ELSE Ok(p0, Nil)

checkInterval(p0, d) ==
    IF d.v = Zero64 \/ d.e # Nil
    THEN Unexpected(scanIgnoreWhitespace(unscan(unscan(p0))), Nil,
                    IF d.e # Nil THEN <<"GROUP BY time(...)", d.e.s>>
                    ELSE <<"GROUP BY time(...)">>)
    ELSE Ok(p0, Nil)

parseCreateContinuousQueryStatement(p0) ==
    Bind(scanIgnoreWhitespace(p0), LAMBDA t :
    IF t.tok # "QUERY" THEN Unexpected(t, Nil, <<"QUERY">>) ELSE
    Bind(parseIdent(t.p), LAMBDA ident :
    IF ident.e # Nil THEN Err(ident.p, Nil, ident.e) ELSE
    Bind(scanIgnoreWhitespace(ident.p), LAMBDA on :
    IF on.tok # "ON" THEN Unexpected(on, Nil, <<"ON">>) ELSE
    Bind(parseIdent(on.p), LAMBDA db :
    IF db.e # Nil THEN Err(db.p, Nil, db.e) ELSE
    Bind(parseTokens(db.p, <<"BEGIN", "SELECT">>), LAMBDA begin :
    IF begin.e # Nil THEN Err(begin.p, Nil, begin.e) ELSE
    Bind(parseSelectStatement(begin.p, "targetRequired"), LAMBDA source :
    IF source.e # Nil THEN Err(source.p, Nil, source.e) ELSE
    Bind(IF Aggregated(source.v) THEN checkInterval(source.p, GroupByInterval(source.v))
         ELSE Ok(source.p, Nil), LAMBDA checked :
    IF checked.e # Nil THEN Err(checked.p, Nil, checked.e) ELSE
    Bind(scanIgnoreWhitespace(checked.p), LAMBDA end :
    IF end.tok # "END" THEN Unexpected(end, Nil, <<"END">>) ELSE
    Ok(end.p, [k |-> "CreateContinuousQueryStatement", Name |-> ident.v,
               Database |-> db.v, Source |-> source.v])))))))))

(***************************************************************************)
(* ParseStatement and ParseQuery.                                          *)
(***************************************************************************)
\* A (*T, error) returned as (Statement, error): the pointer becomes an
\* interface value, and the interface that holds a nil *T is not the nil
\* interface.
NilPointer(T) == [k |-> T, ptr |-> Nil]

Statement(r, T) == IF r.v = Nil THEN [r EXCEPT !.v = NilPointer(T)] ELSE r

parseShowStatement(p0) ==
    Bind(scanIgnoreWhitespace(p0), LAMBDA t :
        CASE t.tok = "CONTINUOUS" -> Statement(parseShowContinuousQueriesStatement(t.p),
                                               "ShowContinuousQueriesStatement")
          [] t.tok = "DATABASES" -> Statement(parseShowDatabasesStatement(t.p),
                                              "ShowDatabasesStatement")
          [] t.tok = "FIELD" ->
                 Bind(scanIgnoreWhitespace(t.p), LAMBDA next :
                     IF next.tok = "KEYS" THEN Statement(parseShowFieldKeysStatement(next.p),
                                                         "ShowFieldKeysStatement")
                     ELSE Unexpected(next, Nil, <<"KEYS", "VALUES">>))
          [] t.tok = "MEASUREMENTS" -> Statement(parseShowMeasurementsStatement(t.p),
                                                 "ShowMeasurementsStatement")
          [] t.tok = "RETENTION" ->
                 Bind(scanIgnoreWhitespace(t.p), LAMBDA next :
                     IF next.tok = "POLICIES"
                     THEN Statement(parseShowRetentionPoliciesStatement(next.p),
                                    "ShowRetentionPoliciesStatement")
                     ELSE Unexpected(next, Nil, <<"POLICIES">>))
          [] t.tok = "SERIES" -> Statement(parseShowSeriesStatement(t.p),
                                           "ShowSeriesStatement")
          [] t.tok = "TAG" ->
                 Bind(scanIgnoreWhitespace(t.p), LAMBDA next :
                     IF next.tok = "KEYS" THEN Statement(parseShowTagKeysStatement(next.p),
                                                         "ShowTagKeysStatement")
                     ELSE IF next.tok = "VALUES"
                          THEN Statement(parseShowTagValuesStatement(next.p),
                                         "ShowTagValuesStatement")
                     ELSE Unexpected(next, Nil, <<"KEYS", "VALUES">>))
          [] t.tok = "USERS" -> Statement(parseShowUsersStatement(t.p),
                                          "ShowUsersStatement")
          [] OTHER ->
                 Unexpected(t, Nil, <<"CONTINUOUS", "DATABASES", "FIELD",
                                      "MEASUREMENTS", "RETENTION", "SERIES", "TAG",
                                      "USERS">>))

parseCreateStatement(p0) ==
    Bind(scanIgnoreWhitespace(p0), LAMBDA t :
        CASE t.tok = "CONTINUOUS" -> Statement(parseCreateContinuousQueryStatement(t.p),
                                               "CreateContinuousQueryStatement")
          [] t.tok = "DATABASE" -> Statement(parseCreateDatabaseStatement(t.p),
                                             "CreateDatabaseStatement")
          [] t.tok = "USER" -> Statement(parseCreateUserStatement(t.p),
                                         "CreateUserStatement")
          [] t.tok = "RETENTION" ->
                 Bind(scanIgnoreWhitespace(t.p), LAMBDA next :
                     IF next.tok # "POLICY" THEN Unexpected(next, Nil, <<"POLICY">>)
                     ELSE Statement(parseCreateRetentionPolicyStatement(next.p),
                                    "CreateRetentionPolicyStatement"))
          [] OTHER ->
                 Unexpected(t, Nil, <<"CONTINUOUS", "DATABASE", "USER", "RETENTION">>))

parseDropStatement(p0) ==
    Bind(scanIgnoreWhitespace(p0), LAMBDA t :
        CASE t.tok = "SERIES" -> Statement(parseDropSeriesStatement(t.p),
                                           "DropSeriesStatement")
          [] t.tok = "MEASUREMENT" -> Statement(parseDropMeasurementStatement(t.p),
                                                "DropMeasurementStatement")
          [] t.tok = "CONTINUOUS" -> Statement(parseDropContinuousQueryStatement(t.p),
                                               "DropContinuousQueryStatement")
          [] t.tok = "DATABASE" -> Statement(parseDropDatabaseStatement(t.p),
                                             "DropDatabaseStatement")
          [] t.tok = "RETENTION" ->
                 Bind(scanIgnoreWhitespace(t.p), LAMBDA next :
                     IF next.tok # "POLICY" THEN Unexpected(next, Nil, <<"POLICY">>)
                     ELSE Statement(parseDropRetentionPolicyStatement(next.p),
                                    "DropRetentionPolicyStatement"))
          [] t.tok = "USER" -> Statement(parseDropUserStatement(t.p),
                                         "DropUserStatement")
          [] OTHER -> Unexpected(t, Nil, <<"SERIES", "CONTINUOUS", "MEASUREMENT">>))

parseAlterStatement(p0) ==
    Bind(scanIgnoreWhitespace(p0), LAMBDA t :
        IF t.tok = "RETENTION"
        THEN Bind(scanIgnoreWhitespace(t.p), LAMBDA next :
                 IF next.tok # "POLICY" THEN Unexpected(next, Nil, <<"POLICY">>)
                 ELSE Statement(parseAlterRetentionPolicyStatement(next.p),
                                "AlterRetentionPolicyStatement"))
        ELSE Unexpected(t, Nil, <<"RETENTION">>))

ParseStatement(p0) ==
    Bind(scanIgnoreWhitespace(p0), LAMBDA t :
        CASE t.tok = "SELECT" -> Statement(parseSelectStatement(t.p, "targetNotRequired"),
                                           "SelectStatement")
          [] t.tok = "DELETE" -> Statement(parseDeleteStatement(t.p), "DeleteStatement")
          [] t.tok = "SHOW" -> parseShowStatement(t.p)
          [] t.tok = "CREATE" -> parseCreateStatement(t.p)
          [] t.tok = "DROP" -> parseDropStatement(t.p)
          [] t.tok = "GRANT" -> Statement(parseGrantStatement(t.p), "GrantStatement")
          [] t.tok = "REVOKE" -> Statement(parseRevokeStatement(t.p), "RevokeStatement")
          [] t.tok = "ALTER" -> parseAlterStatement(t.p)
          [] OTHER -> Unexpected(t, Nil, <<"SELECT">>))

Query(stmts) == [k |-> "Query", Statements |-> stmts]

\* A return of ParseQuery: done, with the value v and the error e.
Return(p0, stmts, v, e) ==
    [p |-> p0, statements |-> stmts, v |-> v, e |-> e, done |-> TRUE]

\* return nil, err
Failed(p0, stmts, e) == Return(p0, stmts, Nil, e)

\* ParseQuery up to its loop: an empty Query when nothing but whitespace is
\* left.
ParseQueryFirst(p0) ==
    Bind(scanIgnoreWhitespace(p0), LAMBDA t :
        IF t.tok = "EOF" THEN Return(t.p, <<>>, Query(<<>>), Nil)
        ELSE [p |-> unscan(t.p), statements |-> <<>>, v |-> Nil, e |-> Nil,
              done |-> FALSE])

\* One iteration of the loop as a slip would have it: any token after a
\* statement taken for the separator.
ParseQueryIterAnySeparator(p0, stmts) ==
    Bind(ParseStatement(p0), LAMBDA s :
        IF s.e # Nil THEN Failed(s.p, stmts, s.e)
        ELSE Bind(scanIgnoreWhitespace(s.p), LAMBDA t :
                 IF t.tok = "EOF"
                 THEN Return(t.p, Append(stmts, s.v), Query(Append(stmts, s.v)), Nil)
                 ELSE [p |-> Iterated(p0, t.p), statements |-> Append(stmts, s.v),
                       v |-> Nil, e |-> Nil, done |-> FALSE]))

\* One iteration of the loop as a slip would have it: a statement that does
\* not parse is skipped and the loop goes on.
ParseQueryIterSkipsErrors(p0, stmts) ==
    Bind(ParseStatement(p0), LAMBDA s :
        IF s.e # Nil
        THEN [p |-> Iterated(p0, s.p), statements |-> stmts,
              v |-> Nil, e |-> Nil, done |-> FALSE]
        ELSE Bind(scanIgnoreWhitespace(s.p), LAMBDA t :
                 IF t.tok = "EOF"
                 THEN Return(t.p, Append(stmts, s.v), Query(Append(stmts, s.v)), Nil)
                 ELSE [p |-> Iterated(p0, t.p), statements |-> Append(stmts, s.v),
                       v |-> Nil, e |-> Nil, done |-> FALSE]))

\* One iteration of ParseQuery's loop: a statement and what follows it.
ParseQueryIter(p0, stmts) ==
    Bind(ParseStatement(p0), LAMBDA s :
        IF s.e # Nil THEN Failed(s.p, stmts, s.e)
        ELSE Bind(scanIgnoreWhitespace(s.p), LAMBDA t :
                 IF t.tok # "SEMICOLON" /\ t.tok # "EOF"
                 THEN Failed(t.p, Append(stmts, s.v),
                             newParseError(tokstr(t.tok, t.lit), <<";", "EOF">>, t.pos))
                 ELSE IF t.tok = "EOF"
                      THEN Return(t.p, Append(stmts, s.v),
                                  Query(Append(stmts, s.v)), Nil)
                 ELSE [p |-> Iterated(p0, t.p), statements |-> Append(stmts, s.v),
                       v |-> Nil, e |-> Nil, done |-> FALSE]))

RECURSIVE ParseQueryLoop(_, _)
ParseQueryLoop(p0, stmts) ==
    Bind(ParseQueryIter(p0, stmts), LAMBDA it :
        IF it.done THEN [p |-> it.p, v |-> it.v, e |-> it.e]
        ELSE ParseQueryLoop(it.p, it.statements))

ParseQuery(p0) ==
    Bind(ParseQueryFirst(p0), LAMBDA first :
        IF first.done THEN [p |-> first.p, v |-> first.v, e |-> first.e]
        ELSE ParseQueryLoop(first.p, <<>>))

(***************************************************************************)
(* The entry points as state machines.                                     *)
(***************************************************************************)
NoRet == [v |-> Nil, e |-> Nil]

\* The variables of the entry points that are not running.
IdleParser == p = NewParser(<<>>) /\ expr = Nil /\ statements = <<>>
IdleDuration == dur = Zero64 /\ text = <<>>

(***************************************************************************)
(* FormatDuration, then ParseDuration of what it returned.                 *)
(***************************************************************************)
MaxCount == 4
MaxResidue == 2

UnitsOfMeasure == {<<>>, Microsecond, Millisecond, Second, Minute, Hour, Day, Week}

\* count units, plus micro microseconds, plus nano nanoseconds.
DurationOf(count, unit, micro, nano) ==
    MulAdd(MulAdd(MulAll(U64(count), unit), 1, micro * 1000).v, 1, nano).v

DurationInputs ==
    {DurationOf(c, u, m, n) :
        c \in 0..MaxCount, u \in UnitsOfMeasure, m \in 0..1, n \in 0..MaxResidue}
    \cup {MaxInt64, MulAdd(MaxInt64, 1, 0 - DivMod(MaxInt64, 1000).r).v}

\* The suffixes of a duration, each with the unit it stands for: none and u
\* and µ for microseconds, then ms, s, m, h, d and w.
UnitSuffixes ==
    {<<<<>>, Microsecond>>, <<<<"u">>, Microsecond>>, <<<<"µ">>, Microsecond>>,
     <<<<"m", "s">>, Millisecond>>, <<<<"s">>, Second>>, <<<<"m">>, Minute>>,
     <<<<"h">>, Hour>>, <<<<"d">>, Day>>, <<<<"w">>, Week>>}

\* The numbers written before a unit: the small ones, the largest values of
\* 32 and 64 bits, the largest one whose product with the unit fits 64 bits
\* and the one after it.
NumbersFor(unit) ==
    {U64(c) : c \in 0..MaxCount} \cup {MaxInt32, MaxUint32, MaxInt64}
        \cup {DivAll(MaxInt64, unit).q, MulAdd(DivAll(MaxInt64, unit).q, 1, 1).v}

\* The strings given to ParseDuration: a number and a suffix.
DurationTexts ==
    UNION {{FormatUint(n) \o sfx[1] : n \in NumbersFor(sfx[2])} : sfx \in UnitSuffixes}

\* ParseDuration is entered through FormatDuration, with a duration, or by
\* itself, with a string.
InitDuration ==
    /\ entry \in {"FormatDuration", "ParseDuration"}
    /\ pc = entry
    /\ IF entry = "FormatDuration"
       THEN dur \in DurationInputs /\ text = <<>>
       ELSE dur = Zero64 /\ text \in DurationTexts
    /\ ret = NoRet
    /\ IdleParser

DoFormatDuration ==
    /\ pc = "FormatDuration"
    /\ text' = FormatDuration(dur)
    /\ pc' = "ParseDuration"
    /\ UNCHANGED <<entry, p, expr, statements, ret, dur>>

DoParseDuration ==
    /\ pc = "ParseDuration"
    /\ ret' = ParseDuration(text)
    /\ pc' = "done"
    /\ UNCHANGED <<entry, p, expr, statements, dur, text>>

NextDuration == DoFormatDuration \/ DoParseDuration

SpecDuration == InitDuration /\ [][NextDuration]_vars

(***************************************************************************)
(* ParseExpr, one iteration of its loop at a time.                         *)
(***************************************************************************)
MaxOps == 3

OperandNames == <<"a", "b", "c", "d", "e", "f">>

OperatorInputs == {"MUL", "DIV", "ADD", "EQ", "AND", "OR"}

\* operand (operator operand)* for the operators ops, the i-th operand being
\* the identifier OperandNames[i]; spaced, with WS around every operator.
RECURSIVE PlainExpr(_, _, _)
PlainExpr(ops, i, spaced) ==
    IF i > Len(ops) THEN <<Ident(<<OperandNames[i]>>)>>
    ELSE <<Ident(<<OperandNames[i]>>)>>
         \o (IF spaced THEN <<Ws, Tk(ops[i]), Ws>> ELSE <<Tk(ops[i])>>)
         \o PlainExpr(ops, i + 1, spaced)

OperatorSeqs == UNION {[1..n -> OperatorInputs] : n \in 0..MaxOps}

PlainExprs == {PlainExpr(ops, 1, sp) : ops \in OperatorSeqs, sp \in BOOLEAN}

\* The operators of the expressions with parentheses.
ParenOperatorInputs == {"MUL", "ADD"}

\* The plain expression of the operators ops from its i-th operand on, with
\* a left parenthesis before the operand lo and a right one after the
\* operand hi.
RECURSIVE ParenExprFrom(_, _, _, _)
ParenExprFrom(ops, i, lo, hi) ==
    (IF i = lo THEN <<Tk("LPAREN")>> ELSE <<>>)
    \o <<Ident(<<OperandNames[i]>>)>>
    \o (IF i = hi THEN <<Tk("RPAREN")>> ELSE <<>>)
    \o (IF i > Len(ops) THEN <<>>
        ELSE <<Ws, Tk(ops[i]), Ws>> \o ParenExprFrom(ops, i + 1, lo, hi))

ParenExprs ==
    {ParenExprFrom(ops, 1, lo, hi) :
        ops \in UNION {[1..n -> ParenOperatorInputs] : n \in 0..MaxOps},
        lo \in 1..(MaxOps + 1), hi \in 1..(MaxOps + 1)}
    \ {<<>>}

ExprInputs == PlainExprs \cup ParenExprs

InitExpr ==
    /\ entry = "ParseExpr"
    /\ pc = "ParseExpr"
    /\ p \in {NewParser(toks) : toks \in ExprInputs}
    /\ expr = Nil
    /\ statements = <<>>
    /\ ret = NoRet
    /\ IdleDuration

\* The state after ParseExpr's first operand: the loop, or the error returned.
AfterFirst(first) ==
    /\ p' = first.p
    /\ IF first.e # Nil
       THEN pc' = "done" /\ ret' = [v |-> Nil, e |-> first.e] /\ expr' = expr
       ELSE pc' = "ExprLoop" /\ expr' = first.v /\ ret' = ret

\* ParseExpr up to its loop: the first operand.
ExprFirst ==
    /\ pc = "ParseExpr"
    /\ AfterFirst(parseUnaryExpr(p))
    /\ UNCHANGED <<entry, statements, dur, text>>

\* The state after an iteration of the loop: the loop again, or the return.
AfterIter(it) ==
    /\ p' = it.p
    /\ IF it.done
       THEN pc' = "done" /\ ret' = [v |-> it.v, e |-> it.e] /\ expr' = expr
       ELSE pc' = "ExprLoop" /\ expr' = it.v /\ ret' = ret

\* One iteration of the loop of ParseExpr.
ExprLoop ==
    /\ pc = "ExprLoop"
    /\ AfterIter(ParseExprIter(p, expr))
    /\ UNCHANGED <<entry, statements, dur, text>>

NextExpr == ExprFirst \/ ExprLoop

SpecExpr == InitExpr /\ [][NextExpr]_vars

(***************************************************************************)
(* ParseQuery, one statement at a time, and ParseStatement.                *)
(***************************************************************************)
MaxStatements == 2

\* 2^31 and 2^32, one past math.MaxInt32 and math.MaxUint32.
TwoTo31 == MulAdd(MaxInt32, 1, 1).v
TwoTo32 == MulAdd(MaxUint32, 1, 1).v

\* The words of the inputs that are no token names: identifiers, literals,
\* operators and punctuation, each with its token.
Literals ==
    ("a" :> Ident(<<"a">>)) @@ ("b" :> Ident(<<"b">>)) @@ ("c" :> Ident(<<"c">>))
    @@ ("d" :> Ident(<<"d">>))
    @@ ("count" :> Ident(<<"c", "o", "u", "n", "t">>))
    @@ ("time" :> Ident(<<"t", "i", "m", "e">>))
    @@ ("join" :> Ident(<<"j", "o", "i", "n">>))
    @@ ("Merge" :> Ident(<<"M", "e", "r", "g", "e">>))
    @@ ("0" :> Number(<<"0">>)) @@ ("1" :> Number(<<"1">>))
    @@ ("2" :> Number(<<"2">>)) @@ ("1.5" :> Number(<<"1", ".", "5">>))
    @@ ("2^31-1" :> Number(FormatUint(MaxInt32)))
    @@ ("2^31" :> Number(FormatUint(TwoTo31)))
    @@ ("2^32-1" :> Number(FormatUint(MaxUint32)))
    @@ ("2^32" :> Number(FormatUint(TwoTo32)))
    @@ ("2^63-1" :> Number(FormatUint(MaxInt64)))
    @@ ("2^63" :> Number(FormatUint(MulAdd(MaxInt64, 1, 1).v)))
    @@ ("5m" :> DurationVal(<<"5", "m">>)) @@ ("1h" :> DurationVal(<<"1", "h">>))
    @@ ("0s" :> DurationVal(<<"0", "s">>))
    @@ ("2^63s" :> DurationVal(FormatUint(MulAdd(MaxInt64, 1, 1).v) \o <<"s">>))
    @@ ("'x'" :> String(<<"x">>))
    @@ ("'2015-01-02'" :> String(<<"2", "0", "1", "5", "-", "0", "1", "-", "0", "2">>))
    @@ ("'2015-01-02 03:04:05'"
            :> String(<<"2", "0", "1", "5", "-", "0", "1", "-", "0", "2", " ",
                         "0", "3", ":", "0", "4", ":", "0", "5">>))
    @@ ("'2015-01-02T03:04:05Z'"
            :> String(<<"2", "0", "1", "5", "-", "0", "1", "-", "0", "2", "T",
                         "0", "3", ":", "0", "4", ":", "0", "5", "Z">>))
    @@ ("'2015-01-02x'"
            :> String(<<"2", "0", "1", "5", "-", "0", "1", "-", "0", "2", "x">>))
    @@ ("'2015-13-02'" :> String(<<"2", "0", "1", "5", "-", "1", "3", "-", "0", "2">>))
    @@ ("'2015-01-02\n'"
            :> String(<<"2", "0", "1", "5", "-", "0", "1", "-", "0", "2", "\n">>))
    @@ ("'2015-01-0'" :> String(<<"2", "0", "1", "5", "-", "0", "1", "-", "0">>))
    @@ ("''" :> String(<<>>))
    @@ ("(" :> Tk("LPAREN")) @@ (")" :> Tk("RPAREN")) @@ ("," :> Tk("COMMA"))
    @@ (";" :> Tk("SEMICOLON")) @@ ("*" :> Tk("MUL")) @@ ("=" :> Tk("EQ"))
    @@ (">" :> Tk("GT")) @@ ("+" :> Tk("ADD")) @@ (" " :> Ws)

\* The tokens of a sentence given as its words.
Lex(words) ==
    [i \in 1..Len(words) |->
        IF words[i] \in DOMAIN Literals THEN Literals[words[i]] ELSE Tk(words[i])]

\* The tokens that need no whitespace around them.
Punctuation ==
    {"COMMA", "SEMICOLON", "LPAREN", "RPAREN", "WS"} \cup (Operators \ {"AND", "OR"})

\* The token stream of the Scanner for the tokens toks written with a space
\* wherever two of them would otherwise run together.
RECURSIVE Spaced(_)
Spaced(toks) ==
    IF Len(toks) < 2 THEN toks
    ELSE IF toks[1].tok \in Punctuation \/ toks[2].tok \in Punctuation
         THEN <<toks[1]>> \o Spaced(Tail(toks))
    ELSE <<toks[1], Ws>> \o Spaced(Tail(toks))

\* The statements of the inputs, N standing for a number.
SelectTemplates ==
    {<<"SELECT", "a", "FROM", "b">>,
     <<"SELECT", "*", "FROM", "b", "WHERE", "a", "=", "1", "AND", "c", ">", "2">>,
     <<"SELECT", "count", "(", "a", ")", ",", "c", "AS", "d", "FROM", "b",
       "GROUP", "BY", "time", "(", "5m", ")", ",", "c",
       "ORDER", "BY", "a", "DESC", ",", "c", "LIMIT", "N", "OFFSET", "2">>,
     <<"SELECT", "count", "(", ")", "FROM", "b", "OFFSET", "N">>,
     <<"SELECT", "a", "INTO", "c", "ON", "d", "FROM", "join", "(", "a", ",", "b", ")",
       "LIMIT", "N">>,
     <<"SELECT", "a", "FROM", "Merge", "(", "a", ",", "b", ")",
       "WHERE", "a", "=", "'x'">>,
     <<"SELECT", "a", "FROM", "count", "(", "a", ")">>,
     <<"SELECT", "a", "FROM", "b", "LIMIT", "a">>,
     <<"SELECT", "a", ",", "*", "FROM", "b">>,
     <<"SELECT", "a", ",", "*", "AS", "c", "FROM", "b">>,
     <<"SELECT", "*", ",", "a", "FROM", "b">>,
     <<"SELECT", "*", "AS", "c", "FROM", "b">>,
     <<"SELECT", "a", "FROM", "b", "WHERE", "a", "=", "'x'">>,
     <<"SELECT", "a", "FROM", "b", "WHERE", "a", "=", "'2015-01-02'">>,
     <<"SELECT", "a", "FROM", "b", "WHERE", "a", "=", "'2015-01-02 03:04:05'">>,
     <<"SELECT", "a", "FROM", "b", "WHERE", "a", "=", "'2015-01-02T03:04:05Z'">>,
     <<"SELECT", "a", "FROM", "b", "WHERE", "a", "=", "'2015-01-02x'">>,
     <<"SELECT", "a", "FROM", "b", "WHERE", "a", "=", "'2015-13-02'">>,
     <<"SELECT", "a", "FROM", "b", "WHERE", "a", "=", "'2015-01-02\n'">>,
     <<"SELECT", "a", "FROM", "b", "WHERE", "a", "=", "'2015-01-0'">>,
     <<"SELECT", "a", "FROM", "b", "WHERE", "a", "=", "''">>,
     <<"SELECT", "a", "FROM", "b", "WHERE", "a", ">", "2^63s">>,
     <<"SELECT", "a", "FROM", "b", "WHERE", "a", ">", "5m">>,
     <<"SELECT", "a", "INTO", "c", "FROM", "b", "WHERE", "a", "=", "1",
       "GROUP", "BY", "c", "ORDER", "BY", "a", "LIMIT", "1", "OFFSET", "2">>,
     <<"SELECT", "a", "FROM", "b", "OFFSET", "1", "LIMIT", "2">>,
     <<"SELECT", "a", "FROM", "b", "GROUP", "BY", "c", "WHERE", "a", "=", "1">>,
     <<"SELECT", "a", "FROM", "b", "ORDER", "BY", "a", "GROUP", "BY", "c">>,
     <<"SELECT", "a", "FROM", "b", "LIMIT", "1", "ORDER", "BY", "a">>,
     <<"SELECT", "a", "FROM", "b", "INTO", "c">>,
     <<"SELECT", "a", "FROM", "b", "LIMIT", "1", "LIMIT", "2">>,
     <<"SELECT", "a", "FROM", "b", "FROM", "c">>,
     <<"SELECT", "a", "WHERE", "a", "=", "1">>,
     <<"SELECT", "a", "INTO", "c", "WHERE", "a", "=", "1">>,
     <<"DELETE", "FROM", "a", "WHERE", "b", ">", "'2015-01-02'">>}

ShowTemplates ==
    {<<"SHOW", "DATABASES">>,
     <<"SHOW", "USERS">>,
     <<"SHOW", "USERS", "a">>,
     <<"SHOW", "CONTINUOUS", "QUERIES">>,
     <<"SHOW", "MEASUREMENTS", "WHERE", "a", "=", "1", "ORDER", "BY", "ASC",
       "LIMIT", "N">>,
     <<"SHOW", "SERIES", "FROM", "a", "WHERE", "b", "=", "1", "LIMIT", "2",
       "OFFSET", "N">>,
     <<"SHOW", "TAG", "KEYS", "FROM", "a", "ORDER", "BY", "b", "ASC", "OFFSET", "N">>,
     <<"SHOW", "TAG", "VALUES", "FROM", "a", "WITH", "KEY", "IN", "(", "a", ",", "b", ")",
       "LIMIT", "N">>,
     <<"SHOW", "TAG", "VALUES", "WITH", "KEY", "=", "a">>,
     <<"SHOW", "FIELD", "KEYS", "FROM", "a", "LIMIT", "N">>,
     <<"SHOW", "RETENTION", "POLICIES", "a">>}

DefinitionTemplates ==
    {<<"CREATE", "DATABASE", "a">>,
     <<"CREATE", "USER", "a", "WITH", "PASSWORD", "'x'", "WITH", "ALL", "PRIVILEGES">>,
     <<"CREATE", "RETENTION", "POLICY", "a", "ON", "b", "DURATION", "1h",
       "REPLICATION", "N", "DEFAULT">>,
     <<"CREATE", "CONTINUOUS", "QUERY", "a", "ON", "b", "BEGIN",
       "SELECT", "count", "(", "a", ")", "INTO", "c", "FROM", "d",
       "GROUP", "BY", "time", "(", "5m", ")", "LIMIT", "N", "END">>,
     <<"CREATE", "CONTINUOUS", "QUERY", "a", "ON", "b", "BEGIN",
       "SELECT", "count", "(", "a", ")", "INTO", "c", "FROM", "d",
       "GROUP", "BY", "time", "(", "0s", ")", "END">>,
     <<"CREATE", "CONTINUOUS", "QUERY", "a", "ON", "b", "BEGIN",
       "SELECT", "a", "INTO", "c", "FROM", "d", "END">>,
     <<"CREATE", "CONTINUOUS", "QUERY", "a", "ON", "b", "BEGIN",
       "SELECT", "count", "(", "a", ")", "INTO", "c", "FROM", "d", "END">>,
     <<"CREATE", "CONTINUOUS", "QUERY", "a", "ON", "b", "BEGIN",
       "SELECT", "a", ",", "count", "(", "a", ")", "INTO", "c", "FROM", "d",
       "GROUP", "BY", "c", "END">>,
     <<"CREATE", "CONTINUOUS", "QUERY", "a", "ON", "b", "BEGIN",
       "SELECT", "count", "(", "a", ")", "INTO", "c", "FROM", "d",
       "GROUP", "BY", "time", "(", "c", ")", "END">>,
     <<"CREATE", "CONTINUOUS", "QUERY", "a", "ON", "b", "BEGIN",
       "SELECT", "count", "(", "a", ")", "INTO", "c", "FROM", "d",
       "GROUP", "BY", "c", ",", "time", "(", "5m", ")", "END">>,
     <<"DROP", "SERIES", "N">>,
     <<"DROP", "SERIES", "a">>,
     <<"DROP", "SERIES", "FROM", "a">>,
     <<"DROP", "SERIES", "WHERE", "a", "=", "1">>,
     <<"DROP", "SERIES", "FROM", "a", "WHERE", "b", "=", "1">>,
     <<"DROP", "SERIES", "FROM", "a", "N">>,
     <<"DROP", "MEASUREMENT", "a">>,
     <<"DROP", "CONTINUOUS", "QUERY", "a">>,
     <<"DROP", "DATABASE", "a">>,
     <<"DROP", "RETENTION", "POLICY", "a", "ON", "b">>,
     <<"DROP", "USER", "a">>,
     <<"ALTER", "RETENTION", "POLICY", "a", "ON", "b", "DURATION", "1h",
       "REPLICATION", "N", "DEFAULT">>,
     <<"ALTER", "RETENTION", "POLICY", "a", "ON", "b", "DEFAULT">>,
     <<"ALTER", "RETENTION", "POLICY", "a", "ON", "b", "DURATION", "2^63s">>,
     <<"CREATE", "RETENTION", "POLICY", "a", "ON", "b", "DURATION", "1h",
       "REPLICATION", "2">>,
     <<"CREATE", "RETENTION", "POLICY", "a", "ON", "b", "DURATION", "1h",
       "REPLICATION", "2", "a">>,
     <<"CREATE", "RETENTION", "POLICY", "a", "ON", "b", "DURATION", "2^63s",
       "REPLICATION", "1">>,
     <<"ALTER", "RETENTION", "POLICY", "a", "ON", "b", "REPLICATION", "N">>,
     <<"ALTER", "RETENTION", "POLICY", "a", "ON", "b",
       "DURATION", "1h">>,
     <<"ALTER", "RETENTION", "POLICY", "a", "ON", "b",
       "REPLICATION", "2">>,
     <<"ALTER", "RETENTION", "POLICY", "a", "ON", "b",
       "DURATION", "1h", "REPLICATION", "2">>,
     <<"ALTER", "RETENTION", "POLICY", "a", "ON", "b",
       "DURATION", "1h", "DEFAULT">>,
     <<"ALTER", "RETENTION", "POLICY", "a", "ON", "b",
       "REPLICATION", "2", "DURATION", "1h">>,
     <<"ALTER", "RETENTION", "POLICY", "a", "ON", "b",
       "REPLICATION", "2", "DEFAULT">>,
     <<"ALTER", "RETENTION", "POLICY", "a", "ON", "b",
       "DEFAULT", "DURATION", "1h">>,
     <<"ALTER", "RETENTION", "POLICY", "a", "ON", "b",
       "DEFAULT", "REPLICATION", "2">>,
     <<"ALTER", "RETENTION", "POLICY", "a", "ON", "b",
       "DURATION", "1h", "REPLICATION", "2", "DEFAULT">>,
     <<"ALTER", "RETENTION", "POLICY", "a", "ON", "b",
       "DURATION", "1h", "DEFAULT", "REPLICATION", "2">>,
     <<"ALTER", "RETENTION", "POLICY", "a", "ON", "b",
       "REPLICATION", "2", "DURATION", "1h", "DEFAULT">>,
     <<"ALTER", "RETENTION", "POLICY", "a", "ON", "b",
       "REPLICATION", "2", "DEFAULT", "DURATION", "1h">>,
     <<"ALTER", "RETENTION", "POLICY", "a", "ON", "b",
       "DEFAULT", "DURATION", "1h", "REPLICATION", "2">>,
     <<"ALTER", "RETENTION", "POLICY", "a", "ON", "b",
       "DEFAULT", "REPLICATION", "2", "DURATION", "1h">>,
     <<"ALTER", "RETENTION", "POLICY", "a", "ON", "b", "DEFAULT", "DEFAULT">>,
     <<"ALTER", "RETENTION", "POLICY", "a", "ON", "b", "LIMIT", "1">>,
     <<"GRANT", "READ", "ON", "a", "TO", "b">>,
     <<"GRANT", "ALL", "PRIVILEGES", "TO", "b">>,
     <<"GRANT", "WRITE", "TO", "b">>,
     <<"REVOKE", "WRITE", "ON", "a", "FROM", "b">>,
     <<"REVOKE", "ALL", "FROM", "b">>,
     <<"REVOKE", "READ", "FROM", "b">>,
     <<"REVOKE", "WRITE", "ON", "a", "TO", "b">>,
     <<"GRANT", "ALL", "ON", "a", "TO", "b">>,
     <<"GRANT", "READ", "ON", "a", "FROM", "b">>,
     <<"GRANT", "READ", "ON", "a", "b", "c">>,
     <<"REVOKE", "ALL", "PRIVILEGES", "ON", "a", "b", "c">>}

Templates == SelectTemplates \cup ShowTemplates \cup DefinitionTemplates

\* The numbers that stand for N.
NumberWords ==
    {"0", "1", "2", "1.5", "2^31-1", "2^31", "2^32-1", "2^32", "2^63-1", "2^63"}

\* The statement of the template words with the number n for N.
Sentence(words, n) ==
    Spaced(Lex([i \in 1..Len(words) |-> IF words[i] = "N" THEN n ELSE words[i]]))

Prefixes(s) == {SubSeq(s, 1, n) : n \in 0..Len(s)}

\* Every statement with every number; every statement cut short anywhere,
\* and with whitespace or a semicolon around it.
Sentences == {Sentence(words, n) : words \in Templates, n \in NumberWords}

Truncated == UNION {Prefixes(Sentence(words, "1")) : words \in Templates}

Terminated ==
    {pre \o Sentence(words, "1") \o post :
        words \in Templates, pre \in {<<>>, <<Ws>>},
        post \in {<<>>, <<Ws>>, Lex(<<";">>), Lex(<<";", " ">>)}}

\* The statements of the inputs of several statements.
ShortTemplates ==
    {<<"SHOW", "USERS">>, <<"DROP", "SERIES", "1">>, <<"SELECT", "a", "FROM", "b">>,
     <<"SELECT">>, <<"SHOW", "USERS", "a">>, <<"SELECT", "a", ",", "b", "FROM", "c">>}

\* n statements, a semicolon between each two.
RECURSIVE Scripts(_)
Scripts(n) ==
    IF n = 1 THEN {Sentence(words, "1") : words \in ShortTemplates}
    ELSE {s \o Lex(<<";">>) \o Sentence(words, "1") :
             s \in Scripts(n - 1), words \in ShortTemplates}

\* Nothing, and nothing but whitespace.
Blank == {<<>>, <<Ws>>}

QueryInputs ==
    Blank \cup Sentences \cup Truncated \cup Terminated
        \cup UNION {Scripts(n) : n \in 1..MaxStatements}

StatementInputs == Sentences

InitQuery ==
    /\ entry \in {"ParseQuery", "ParseStatement"}
    /\ pc = entry
    /\ p \in {NewParser(toks) :
                 toks \in IF entry = "ParseQuery" THEN QueryInputs ELSE StatementInputs}
    /\ expr = Nil
    /\ statements = <<>>
    /\ ret = NoRet
    /\ IdleDuration

\* The state after ParseQuery's look at the first token.
AfterQueryFirst(first) ==
    /\ p' = first.p
    /\ statements' = first.statements
    /\ IF first.done
       THEN pc' = "done" /\ ret' = [v |-> first.v, e |-> first.e]
       ELSE pc' = "QueryLoop" /\ ret' = ret

\* ParseQuery up to its loop.
QueryFirst ==
    /\ pc = "ParseQuery"
    /\ AfterQueryFirst(ParseQueryFirst(p))
    /\ UNCHANGED <<entry, expr, dur, text>>

\* The state after an iteration of the loop: the loop again, or the return.
AfterQueryIter(it) ==
    /\ p' = it.p
    /\ statements' = it.statements
    /\ IF it.done
       THEN pc' = "done" /\ ret' = [v |-> it.v, e |-> it.e]
       ELSE pc' = "QueryLoop" /\ ret' = ret

\* One iteration of the loop of ParseQuery.
QueryIter ==
    /\ pc = "QueryLoop"
    /\ AfterQueryIter(ParseQueryIter(p, statements))
    /\ UNCHANGED <<entry, expr, dur, text>>

\* The state after ParseStatement.
AfterStatement(s) ==
    /\ p' = s.p
    /\ ret' = [v |-> s.v, e |-> s.e]
    /\ pc' = "done"

DoParseStatement ==
    /\ pc = "ParseStatement"
    /\ AfterStatement(ParseStatement(p))
    /\ UNCHANGED <<entry, expr, statements, dur, text>>

NextQuery == QueryFirst \/ QueryIter \/ DoParseStatement

SpecQuery == InitQuery /\ [][NextQuery]_vars

(***************************************************************************)
(* What the properties speak of.                                           *)
(***************************************************************************)
\* The input of the run, and its tokens that are no whitespace.
Input == p.toks

NonWs(toks) == SelectSeq(toks, LAMBDA t : t.tok # "WS")

Count(toks, tok) == Cardinality({i \in 1..Len(toks) : toks[i].tok = tok})

Accepted == pc = "done" /\ ret.e = Nil
Rejected == pc = "done" /\ ret.e # Nil

\* The statements an accepted run returned.
Returned == IF entry = "ParseQuery" THEN ret.v.Statements ELSE <<ret.v>>

IsParseError(e) == DOMAIN e = {"Message", "Found", "Expected", "Pos"}

\* The result holds no statement: it is nil, or an interface of a nil pointer.
NoStatement(v) == v = Nil \/ v = NilPointer(v.k)

\* Some token kw of the input is followed by a number that satisfies Bad.
FollowedBy(kw, Bad(_)) ==
    \E i \in 1..(Len(NonWs(Input)) - 1) :
        /\ NonWs(Input)[i].tok = kw
        /\ NonWs(Input)[i + 1].tok = "NUMBER"
        /\ Bad(NonWs(Input)[i + 1].lit)

IsZero(lit) == lit # <<>> /\ \A i \in 1..Len(lit) : lit[i] = "0"

AtLeastOne(n) == ~IsNeg(n) /\ n # Zero64

(***************************************************************************)
(* C1. Precedence of the operators.                                        *)
(***************************************************************************)
\* The operators of an input operand (operator operand)*.
InputOps == [i \in 1..((Len(NonWs(Input)) - 1) \div 2) |-> NonWs(Input)[2 * i].tok]

\* The tree of the reference parser for the operands lo..hi: the root is the
\* last of the operators of lowest precedence between them.
RECURSIVE RefTree(_, _, _)
RefTree(ops, lo, hi) ==
    IF lo = hi THEN VarRef(<<OperandNames[lo]>>)
    ELSE LET root == CHOOSE i \in lo..(hi - 1) :
                         \A j \in lo..(hi - 1) :
                             \/ Precedence(ops[i]) < Precedence(ops[j])
                             \/ Precedence(ops[i]) = Precedence(ops[j]) /\ j <= i
         IN  BinaryExpr(RefTree(ops, lo, root), ops[root], RefTree(ops, root + 1, hi))

\* C1: for every input operand (operator operand)* without parentheses that
\* ParseExpr accepts, the tree returned is the tree of the reference parser
\* with the precedences MUL, DIV > ADD, SUB > comparisons > AND = OR and
\* left-associativity at equal precedence.
C1_PrecedenceLaw ==
    Accepted /\ entry = "ParseExpr" /\ Input \in PlainExprs =>
        ret.v = RefTree(InputOps, 1, Len(InputOps) + 1)

(***************************************************************************)
(* C2. A trailing semicolon.                                               *)
(***************************************************************************)
\* C2: for every input that ParseQuery accepts, ParseQuery accepts the input
\* followed by one semicolon (and the semicolon followed by whitespace) and
\* returns the same statements in the same order.
C2_TrailingSemicolon ==
    Accepted /\ entry = "ParseQuery" =>
        \A post \in {<<Tk("SEMICOLON")>>, <<Tk("SEMICOLON"), Ws>>} :
            ParseQuery(NewParser(Input \o post)) =
                [p |-> ParseQuery(NewParser(Input \o post)).p, v |-> ret.v, e |-> Nil]

(***************************************************************************)
(* C3. Whitespace between tokens.                                          *)
(***************************************************************************)
\* toks with one WS token put after its i-th token.
InsertWs(toks, i) == SubSeq(toks, 1, i) \o <<Ws>> \o SubSeq(toks, i + 1, Len(toks))

\* C3: for every input that ParseQuery accepts, one WS token put between any
\* two adjacent tokens that are no whitespace gives an input that ParseQuery
\* accepts with an equal result.
C3_WhitespaceInsensitive ==
    Accepted /\ entry = "ParseQuery" =>
        \A i \in 1..(Len(Input) - 1) :
            Input[i].tok # "WS" /\ Input[i + 1].tok # "WS" =>
                ParseQuery(NewParser(InsertWs(Input, i))) =
                    [p |-> ParseQuery(NewParser(InsertWs(Input, i))).p,
                     v |-> ret.v, e |-> Nil]

(***************************************************************************)
(* C4. FormatDuration and ParseDuration.                                   *)
(***************************************************************************)
\* C4, as stated: for every non-negative duration d, whole microseconds or
\* not, ParseDuration(FormatDuration(d)) succeeds and returns d.
C4_RoundTrip ==
    pc = "done" /\ entry = "FormatDuration" => ret = [v |-> dur, e |-> Nil]

\* C4, amended: for every non-negative duration d that is a whole number of
\* microseconds, ParseDuration(FormatDuration(d)) succeeds and returns d.
C4_RoundTripMicroseconds ==
    pc = "done" /\ entry = "FormatDuration" /\ DurMod0(dur, Microsecond) =>
        ret = [v |-> dur, e |-> Nil]

\* A duration of whole microseconds that is no whole millisecond has gone
\* through FormatDuration and ParseDuration and come back.
C4_Witness ==
    /\ pc = "done" /\ entry = "FormatDuration"
    /\ DurMod0(dur, Microsecond) /\ ~DurMod0(dur, Millisecond)
    /\ ret.v = dur

(***************************************************************************)
(* C5. Empty input.                                                        *)
(***************************************************************************)
\* C5: ParseQuery on no token at all, or on one WS token, returns a Query of
\* no statement and no error.
C5_BlankInput ==
    pc = "done" /\ entry = "ParseQuery" /\ Input \in {<<>>, <<Ws>>} =>
        ret = [v |-> Query(<<>>), e |-> Nil]

\* ParseQuery has returned on an input of one WS token.
C5_Witness ==
    pc = "done" /\ entry = "ParseQuery" /\ Input = <<Ws>> /\ ret.v = Query(<<>>)

(***************************************************************************)
(* C6. A result or an error.                                               *)
(***************************************************************************)
\* C6: ParseQuery and ParseStatement return either a result and no error, or
\* an error and no result: with an error, neither the statements parsed
\* before the failing one nor a part of the failing one are returned.
C6_ResultOrError ==
    pc = "done" /\ entry \in {"ParseQuery", "ParseStatement"} =>
        \/ ret.v # Nil /\ ret.e = Nil
        \/ ret.v = Nil /\ ret.e # Nil

(***************************************************************************)
(* C7. The errors.                                                         *)
(***************************************************************************)
\* C7: every error ParseQuery returns is a ParseError, its Pos the position
\* of a token the scanner has produced (the end of the input at most), with
\* an Expected list or a Message that is not empty.
C7_ParseError ==
    Rejected /\ entry = "ParseQuery" =>
        /\ IsParseError(ret.e)
        /\ ret.e.Pos \in 1..p.i
        /\ p.i <= Len(Input) + 1
        /\ ret.e.Expected # <<>> \/ ret.e.Message # <<>>

\* ParseQuery has failed at the end of the input with a message.
C7_Witness ==
    /\ Rejected /\ entry = "ParseQuery"
    /\ ret.e.Message # <<>>
    /\ ret.e.Pos = Len(Input)

(***************************************************************************)
(* C8. LIMIT and OFFSET.                                                   *)
(***************************************************************************)
\* The Limit and the Offset of a statement, those of its source for a
\* continuous query; zero for a statement that has none.
LimitOf(s) ==
    IF s.k = "CreateContinuousQueryStatement" THEN s.Source.Limit
    ELSE IF "Limit" \in DOMAIN s THEN s.Limit ELSE Zero64

OffsetOf(s) ==
    IF s.k = "CreateContinuousQueryStatement" THEN s.Source.Offset
    ELSE IF "Offset" \in DOMAIN s THEN s.Offset ELSE Zero64

\* The tokens of the input the parser has taken: all those scanned but the
\* one that was pushed back.
Consumed ==
    SubSeq(Input, 1, IF p.i - p.n <= Len(Input) THEN p.i - p.n ELSE Len(Input))

\* A number that LIMIT and OFFSET must refuse.
NoCount(lit) == ContainsDot(lit) \/ IsZero(lit)

\* C8: in the statements returned, Limit is zero or at least one, and it is
\* at least one for exactly as many statements as the input parsed has
\* LIMIT clauses; likewise for Offset; and an input with LIMIT 0, OFFSET 0 or a
\* number with a fraction after either is rejected with a ParseError.
C8_LimitOffset ==
    /\ Accepted /\ entry \in {"ParseQuery", "ParseStatement"} =>
        /\ \A i \in 1..Len(Returned) :
            /\ LimitOf(Returned[i]) = Zero64 \/ AtLeastOne(LimitOf(Returned[i]))
            /\ OffsetOf(Returned[i]) = Zero64 \/ AtLeastOne(OffsetOf(Returned[i]))
        /\ Cardinality({i \in 1..Len(Returned) : LimitOf(Returned[i]) # Zero64})
               = Count(Consumed, "LIMIT")
        /\ Cardinality({i \in 1..Len(Returned) : OffsetOf(Returned[i]) # Zero64})
               = Count(Consumed, "OFFSET")
    /\ pc = "done" /\ entry \in {"ParseQuery", "ParseStatement"}
           /\ (FollowedBy("LIMIT", NoCount) \/ FollowedBy("OFFSET", NoCount)) =>
        ret.e # Nil /\ IsParseError(ret.e)

\* A statement has been returned with the Limit of its LIMIT clause and,
\* for want of an OFFSET clause, no Offset.
C8_Witness ==
    /\ Accepted /\ entry = "ParseQuery"
    /\ Count(Input, "LIMIT") = 1 /\ Count(Input, "OFFSET") = 0
    /\ Len(Returned) = 1
    /\ AtLeastOne(LimitOf(Returned[1])) /\ OffsetOf(Returned[1]) = Zero64

(***************************************************************************)
(* C9. REPLICATION.                                                        *)
(***************************************************************************)
\* 1 <= n <= 2^31 - 1
ReplicationInRange(n) == AtLeastOne(n) /\ ~LtS(MaxInt32, n)

\* A number that REPLICATION must refuse: a fraction, zero, 2^31.
NoReplication(lit) ==
    ContainsDot(lit) \/ IsZero(lit) \/ lit = FormatUint(TwoTo31)

\* C9: every CreateRetentionPolicyStatement returned has its Replication in
\* 1..2^31-1, and so has every AlterRetentionPolicyStatement that sets it;
\* an input with REPLICATION 0, REPLICATION 2^31 or a number with a fraction
\* is rejected with a ParseError and without a statement.
C9_Replication ==
    /\ Accepted /\ entry \in {"ParseQuery", "ParseStatement"} =>
        \A i \in 1..Len(Returned) :
            /\ Returned[i].k = "CreateRetentionPolicyStatement" =>
                   ReplicationInRange(Returned[i].Replication)
            /\ Returned[i].k = "AlterRetentionPolicyStatement"
                   /\ Returned[i].Replication # Nil =>
                   ReplicationInRange(Returned[i].Replication)
    /\ pc = "done" /\ entry \in {"ParseQuery", "ParseStatement"}
           /\ FollowedBy("REPLICATION", NoReplication) =>
        ret.e # Nil /\ IsParseError(ret.e) /\ NoStatement(ret.v)

\* A retention policy has been created with the replication 2^31 - 1.
C9_Witness ==
    /\ Accepted /\ entry = "ParseQuery"
    /\ Len(Returned) = 1
    /\ Returned[1].k = "CreateRetentionPolicyStatement"
    /\ Returned[1].Replication = MaxInt32

(***************************************************************************)
(* C10. DROP SERIES.                                                       *)
(***************************************************************************)
\* The input is one DROP SERIES statement.
DropsSeries ==
    /\ Len(NonWs(Input)) >= 2
    /\ NonWs(Input)[1].tok = "DROP"
    /\ NonWs(Input)[2].tok = "SERIES"

\* What follows DROP SERIES.
AfterSeries == IF Len(NonWs(Input)) >= 3 THEN NonWs(Input)[3] ELSE Tk("EOF")

\* C10: in every DropSeriesStatement returned, a SeriesID that is not zero
\* goes with no Source and no Condition, and the SeriesID fits 32 bits.
\* After DROP SERIES, with FROM or WHERE next no SeriesID is read and it
\* stays zero; with anything else next the statement is accepted only for a
\* NUMBER of digits whose value is the SeriesID, and is otherwise rejected
\* with a ParseError.
C10_DropSeries ==
    /\ Accepted /\ entry \in {"ParseQuery", "ParseStatement"} =>
        \A i \in 1..Len(Returned) :
            Returned[i].k = "DropSeriesStatement" =>
                /\ Returned[i].SeriesID # Zero64 =>
                       Returned[i].Source = Nil /\ Returned[i].Condition = Nil
                /\ ~LtU(MaxUint32, Returned[i].SeriesID)
    /\ Accepted /\ entry \in {"ParseQuery", "ParseStatement"} /\ DropsSeries =>
        IF AfterSeries.tok \in {"FROM", "WHERE"}
        THEN /\ Returned[1].SeriesID = Zero64
             /\ Returned[1].Source # Nil \/ Returned[1].Condition # Nil
        ELSE /\ AfterSeries.tok = "NUMBER"
             /\ AllDigits(AfterSeries.lit)
             /\ FormatUint(Returned[1].SeriesID) = StripLeadingZeros(AfterSeries.lit)
             /\ Returned[1].Source = Nil /\ Returned[1].Condition = Nil
    /\ Rejected /\ entry \in {"ParseQuery", "ParseStatement"} /\ DropsSeries =>
        IsParseError(ret.e)

\* DROP SERIES has been accepted with the SeriesID 2^32 - 1.
C10_Witness ==
    /\ Accepted /\ entry = "ParseQuery" /\ DropsSeries
    /\ Returned[1].k = "DropSeriesStatement"
    /\ Returned[1].SeriesID = MaxUint32

(***************************************************************************)
(* C11. GRANT and REVOKE.                                                  *)
(***************************************************************************)
\* The i-th token that is no whitespace, EOF past the last one.
NthToken(i) == IF i <= Len(NonWs(Input)) THEN NonWs(Input)[i] ELSE Tk("EOF")

\* The input is one GRANT or REVOKE statement.
GrantsOrRevokes == NthToken(1).tok \in {"GRANT", "REVOKE"}

\* Where the ON clause would start: after the privilege, which is one word
\* or ALL PRIVILEGES.
AfterPrivilege ==
    IF NthToken(2).tok = "ALL" /\ NthToken(3).tok = "PRIVILEGES" THEN 4 ELSE 3

\* Where the user clause starts: after the ON clause if there is one.
AfterOn ==
    IF NthToken(AfterPrivilege).tok = "ON" THEN AfterPrivilege + 2 ELSE AfterPrivilege

\* TO for GRANT, FROM for REVOKE.
UserKeyword == IF NthToken(1).tok = "GRANT" THEN "TO" ELSE "FROM"

\* C11: every GrantStatement or RevokeStatement returned with the privilege
\* Read or Write was parsed from an input with a clause ON <ident>, and its
\* On is that identifier; a statement returned without an On has the
\* privilege All and its input has no ON clause. The user identifier follows
\* TO in a GRANT and FROM in a REVOKE, and READ or WRITE followed directly by
\* TO or FROM is rejected with a ParseError that expects "ON".
C11_GrantRevoke ==
    /\ Accepted /\ entry \in {"ParseQuery", "ParseStatement"} /\ GrantsOrRevokes =>
        /\ Returned[1].k = (IF NthToken(1).tok = "GRANT" THEN "GrantStatement"
                             ELSE "RevokeStatement")
        /\ Returned[1].Privilege \in {"ReadPrivilege", "WritePrivilege"} =>
               NthToken(AfterPrivilege).tok = "ON"
        /\ IF NthToken(AfterPrivilege).tok = "ON"
           THEN /\ NthToken(AfterPrivilege + 1).tok = "IDENT"
                /\ Returned[1].On = NthToken(AfterPrivilege + 1).lit
           ELSE /\ Returned[1].On = <<>>
                /\ Returned[1].Privilege = "AllPrivileges"
        /\ NthToken(AfterOn).tok = UserKeyword
        /\ NthToken(AfterOn + 1).tok = "IDENT"
        /\ Returned[1].User = NthToken(AfterOn + 1).lit
    /\ pc = "done" /\ entry \in {"ParseQuery", "ParseStatement"} /\ GrantsOrRevokes
           /\ NthToken(2).tok \in {"READ", "WRITE"}
           /\ NthToken(3).tok \in {"TO", "FROM"} =>
        /\ ret.e # Nil /\ IsParseError(ret.e)
        /\ ret.e.Expected = <<"ON">>
        /\ NoStatement(ret.v)

\* A privilege on one database has been granted: READ ON a TO b.
C11_Witness ==
    /\ Accepted /\ entry = "ParseQuery" /\ GrantsOrRevokes
    /\ Returned[1].k = "GrantStatement"
    /\ Returned[1].Privilege = "ReadPrivilege"
    /\ Returned[1].On # <<>> /\ Returned[1].User # <<>>

(***************************************************************************)
(* C12. CREATE CONTINUOUS QUERY and the GROUP BY interval.                 *)
(***************************************************************************)
\* The input starts CREATE CONTINUOUS QUERY <ident> ON <ident> BEGIN SELECT.
CreatesContinuousQuery ==
    /\ [i \in 1..3 |-> NthToken(i).tok] = <<"CREATE", "CONTINUOUS", "QUERY">>
    /\ [i \in 4..8 |-> NthToken(i + 0).tok] =
           [i \in 4..8 |-> <<"IDENT", "ON", "IDENT", "BEGIN", "SELECT">>[i - 3]]

\* The SELECT statement of the input, parsed on its own from the token after
\* the first SELECT.
SourceOfInput ==
    parseSelectStatement(
        [NewParser(Input) EXCEPT
            !.i = CHOOSE i \in 1..Len(Input) :
                      /\ Input[i].tok = "SELECT"
                      /\ \A j \in 1..(i - 1) : Input[j].tok # "SELECT"],
        "targetRequired")

\* A call among the top-level expressions of the fields.
HasCallField(stmt) == \E i \in 1..Len(stmt.Fields) : stmt.Fields[i].Expr.k = "Call"

\* A dimension time(<duration>) whose duration is not zero.
HasTimeDimension(stmt) ==
    \E i \in 1..Len(stmt.Dimensions) :
        /\ stmt.Dimensions[i].Expr.k = "Call"
        /\ ToLower(stmt.Dimensions[i].Expr.Name) = <<"t", "i", "m", "e">>
        /\ Len(stmt.Dimensions[i].Expr.Args) = 1
        /\ stmt.Dimensions[i].Expr.Args[1].k = "DurationLiteral"
        /\ stmt.Dimensions[i].Expr.Args[1].Val # Zero64

\* The SELECT of the input is well formed and aggregated, and has no
\* dimension time(<duration>) of a non-zero interval.
AggregatedWithoutInterval ==
    /\ CreatesContinuousQuery
    /\ SourceOfInput.e = Nil
    /\ HasCallField(SourceOfInput.v)
    /\ ~HasTimeDimension(SourceOfInput.v)

\* C12: a CREATE CONTINUOUS QUERY statement whose SELECT is aggregated and
\* whose GROUP BY has no time(<duration>) of a non-zero interval is never
\* accepted: the result is a ParseError whose Expected contains
\* "GROUP BY time(...)", and no statement.
C12_ContinuousQueryInterval ==
    pc = "done" /\ entry \in {"ParseQuery", "ParseStatement"}
        /\ AggregatedWithoutInterval =>
        /\ ret.e # Nil /\ IsParseError(ret.e)
        /\ \E i \in 1..Len(ret.e.Expected) : ret.e.Expected[i] = "GROUP BY time(...)"
        /\ NoStatement(ret.v)

\* An aggregated continuous query without a GROUP BY clause has been
\* rejected.
C12_Witness ==
    /\ Rejected /\ entry = "ParseQuery" /\ AggregatedWithoutInterval
    /\ SourceOfInput.v.Dimensions = <<>>
    /\ ret.e.Expected = <<"GROUP BY time(...)">>

(***************************************************************************)
(* C13. ALTER RETENTION POLICY and its options.                            *)
(***************************************************************************)
\* The input starts ALTER RETENTION POLICY <ident> ON <ident>.
AltersPolicy ==
    [i \in 1..6 |-> NthToken(i).tok] =
        <<"ALTER", "RETENTION", "POLICY", "IDENT", "ON", "IDENT">>

\* What follows the database name.
OptionTokens == SubSeq(NonWs(Input), 7, Len(NonWs(Input)))

\* A number REPLICATION takes.
IsReplication(lit) ==
    ~ContainsDot(lit) /\ ParseInt(lit).err = "" /\ ReplicationInRange(ParseInt(lit).n)

\* toks is a sequence of the options DURATION <duration>, REPLICATION <n> and
\* DEFAULT in any order, none of them in seen and none of them twice, and
\* with seen at least one in all.
RECURSIVE IsOptionList(_, _)
IsOptionList(toks, seen) ==
    IF toks = <<>> THEN seen # {}
    ELSE /\ toks[1].tok \notin seen
         /\ CASE toks[1].tok = "DEFAULT" ->
                     IsOptionList(Tail(toks), seen \cup {"DEFAULT"})
              [] toks[1].tok = "DURATION" ->
                     /\ Len(toks) >= 2 /\ toks[2].tok = "DURATION_VAL"
                     /\ ParseDuration(toks[2].lit).e = Nil
                     /\ IsOptionList(Tail(Tail(toks)), seen \cup {"DURATION"})
              [] toks[1].tok = "REPLICATION" ->
                     /\ Len(toks) >= 2 /\ toks[2].tok = "NUMBER"
                     /\ IsReplication(toks[2].lit)
                     /\ IsOptionList(Tail(Tail(toks)), seen \cup {"REPLICATION"})
              [] OTHER -> FALSE

\* The token after the option keyword kw, Nil when the option is absent.
OptionValue(kw) ==
    IF \E i \in 1..Len(OptionTokens) : OptionTokens[i].tok = kw
    THEN OptionTokens[1 + CHOOSE i \in 1..Len(OptionTokens) : OptionTokens[i].tok = kw]
    ELSE Nil

\* The statement of the options of the input, whatever their order.
AlteredPolicy ==
    [k |-> "AlterRetentionPolicyStatement",
     Name |-> NthToken(4).lit, Database |-> NthToken(6).lit,
     Duration |-> IF OptionValue("DURATION") = Nil THEN Nil
                  ELSE ParseDuration(OptionValue("DURATION").lit).v,
     Replication |-> IF OptionValue("REPLICATION") = Nil THEN Nil
                     ELSE ParseInt(OptionValue("REPLICATION").lit).n,
     Default |-> \E i \in 1..Len(OptionTokens) : OptionTokens[i].tok = "DEFAULT"]

\* C13: ALTER RETENTION POLICY <name> ON <db> is accepted only when at least
\* one option follows, so that every AlterRetentionPolicyStatement returned
\* has its Duration set, its Replication set or Default true; and every
\* non-empty subset of DURATION, REPLICATION and DEFAULT is accepted in every
\* order, with the statement that depends on the options alone.
C13_AlterOptions ==
    /\ Accepted /\ entry \in {"ParseQuery", "ParseStatement"} =>
        \A i \in 1..Len(Returned) :
            Returned[i].k = "AlterRetentionPolicyStatement" =>
                \/ Returned[i].Duration # Nil
                \/ Returned[i].Replication # Nil
                \/ Returned[i].Default
    /\ Accepted /\ entry \in {"ParseQuery", "ParseStatement"} /\ AltersPolicy =>
        NthToken(7).tok \in {"DURATION", "REPLICATION", "DEFAULT"}
    /\ pc = "done" /\ entry \in {"ParseQuery", "ParseStatement"} /\ AltersPolicy
           /\ IsOptionList(OptionTokens, {}) =>
        /\ ret.e = Nil
        /\ Returned = <<AlteredPolicy>>

\* A policy has been altered with DEFAULT first, then REPLICATION, then
\* DURATION.
C13_Witness ==
    /\ Accepted /\ entry = "ParseQuery" /\ AltersPolicy
    /\ [i \in 1..Len(OptionTokens) |-> OptionTokens[i].tok] =
           <<"DEFAULT", "REPLICATION", "NUMBER", "DURATION", "DURATION_VAL">>
    /\ Returned = <<AlteredPolicy>>
    /\ Returned[1].Duration # Nil /\ Returned[1].Replication = U64(2)

(***************************************************************************)
(* C14. Statements and the semicolons between them.                        *)
(***************************************************************************)
\* The pieces of toks between its semicolons.
RECURSIVE SplitAtSemicolons(_, _)
SplitAtSemicolons(toks, piece) ==
    IF toks = <<>> THEN <<piece>>
    ELSE IF toks[1].tok = "SEMICOLON"
         THEN <<piece>> \o SplitAtSemicolons(Tail(toks), <<>>)
    ELSE SplitAtSemicolons(Tail(toks), Append(piece, toks[1]))

Pieces == SplitAtSemicolons(Input, <<>>)

\* The number of tokens of the input before its k-th piece.
RECURSIVE PiecesBefore(_)
PiecesBefore(k) == IF k = 1 THEN 0 ELSE PiecesBefore(k - 1) + Len(Pieces[k - 1]) + 1

\* The k-th piece parsed on its own, and the token after its statement.
PieceStatement(k) == ParseStatement(NewParser(Pieces[k]))

AfterPiece(k) == scanIgnoreWhitespace(PieceStatement(k).p)

\* The k-th piece is one statement and nothing else.
WellFormed(k) == PieceStatement(k).e = Nil /\ AfterPiece(k).tok = "EOF"

\* C14: an input of n >= 1 well-formed statements with one semicolon between
\* each two and EOF after the last yields the Query of exactly these n
\* statements in their order; and when the token after a statement, the
\* whitespace skipped, is neither a semicolon nor EOF, the result is the
\* ParseError at that token with Expected exactly ";" and "EOF".
C14_StatementList ==
    /\ pc = "done" /\ entry = "ParseQuery"
           /\ (\A k \in 1..Len(Pieces) : WellFormed(k)) =>
        /\ ret.e = Nil
        /\ ret.v = Query([k \in 1..Len(Pieces) |-> PieceStatement(k).v])
        /\ statements = ret.v.Statements
    /\ pc = "done" /\ entry = "ParseQuery" =>
        \A k \in 1..Len(Pieces) :
            /\ \A i \in 1..(k - 1) : WellFormed(i)
            /\ PieceStatement(k).e = Nil
            /\ AfterPiece(k).tok # "EOF"
            => /\ ret.v = Nil
               /\ ret.e # Nil /\ IsParseError(ret.e)
               /\ ret.e.Expected = <<";", "EOF">>
               /\ ret.e.Pos = PiecesBefore(k) + AfterPiece(k).pos
               /\ ret.e.Found = tokstr(Input[ret.e.Pos].tok, Input[ret.e.Pos].lit)
               /\ Input[ret.e.Pos].tok \notin {"WS", "SEMICOLON"}

\* Two statements with a semicolon between them have been returned in their
\* order.
C14_Witness ==
    /\ Accepted /\ entry = "ParseQuery"
    /\ Len(Pieces) = 2 /\ WellFormed(1) /\ WellFormed(2)
    /\ Len(ret.v.Statements) = 2
    /\ ret.v.Statements[1].k = "ShowUsersStatement"
    /\ ret.v.Statements[2].k = "SelectStatement"

(***************************************************************************)
(* C15. The order of the clauses of SELECT.                                *)
(***************************************************************************)
\* The keywords that start the clauses of SELECT, in the order of the
\* clauses.
ClauseKeywords == <<"INTO", "FROM", "WHERE", "GROUP", "ORDER", "LIMIT", "OFFSET">>

ClauseRank(kw) == CHOOSE r \in 1..Len(ClauseKeywords) : ClauseKeywords[r] = kw

\* The k-th piece of the input starts with SELECT.
SelectPiece(k) == NonWs(Pieces[k]) # <<>> /\ NonWs(Pieces[k])[1].tok = "SELECT"

\* The clause keywords of the k-th piece, as they come.
ClausesOf(k) ==
    SelectSeq(Pieces[k], LAMBDA t : \E r \in 1..Len(ClauseKeywords) :
                                        ClauseKeywords[r] = t.tok)

\* The clauses of the k-th piece come in the order of ClauseKeywords, none
\* of them twice, and FROM is among them.
ClausesInOrder(k) ==
    /\ \A i, j \in 1..Len(ClausesOf(k)) :
           i < j => ClauseRank(ClausesOf(k)[i].tok) < ClauseRank(ClausesOf(k)[j].tok)
    /\ \E i \in 1..Len(ClausesOf(k)) : ClausesOf(k)[i].tok = "FROM"

\* C15: ParseQuery accepts a SELECT statement only if its clauses come in
\* the order fields, INTO, FROM, WHERE, GROUP BY, ORDER BY, LIMIT, OFFSET,
\* each at most once and FROM exactly once; a statement with two clauses
\* swapped, a clause twice or no FROM is rejected with a ParseError.
C15_ClauseOrder ==
    /\ Accepted /\ entry = "ParseQuery" =>
        \A k \in 1..Len(Pieces) : SelectPiece(k) => ClausesInOrder(k)
    /\ pc = "done" /\ entry = "ParseQuery"
           /\ (\E k \in 1..Len(Pieces) : SelectPiece(k) /\ ~ClausesInOrder(k)) =>
        ret.e # Nil /\ IsParseError(ret.e) /\ ret.v = Nil

\* A SELECT statement with all its seven clauses has been accepted.
C15_Witness ==
    /\ Accepted /\ entry = "ParseQuery"
    /\ Len(Pieces) = 1 /\ SelectPiece(1)
    /\ [i \in 1..Len(ClausesOf(1)) |-> ClausesOf(1)[i].tok] = ClauseKeywords
    /\ Returned[1].k = "SelectStatement"
    /\ Returned[1].Limit = U64(1) /\ Returned[1].Offset = U64(2)

(***************************************************************************)
(* C16. One token of pushback.                                             *)
(***************************************************************************)
\* C16: the parser never calls unscan twice without a scan in between, the
\* error path of CREATE CONTINUOUS QUERY that rewinds to report the missing
\* GROUP BY time(...) included.
C16_SinglePushback == ~p.twice

(***************************************************************************)
(* C17. What a ParseError has found.                                       *)
(***************************************************************************)
\* The error of the run is one for an unexpected token: it has no Message.
UnexpectedToken == Rejected /\ IsParseError(ret.e) /\ ret.e.Message = <<>>

\* The token of the input at the position of the error.
TokenAtError == TokAt(Input, ret.e.Pos)

\* C17: in every ParseError for an unexpected token, Found is the text of
\* the token scanned at the error's Pos, its literal when it has one and its
\* name otherwise, and never the literal of a token before it; so it is for
\* GRANT and REVOKE when ON <ident> is followed by a token other than TO or
\* FROM.
C17_FoundAtPos ==
    UnexpectedToken /\ entry \in {"ParseQuery", "ParseStatement"} =>
        ret.e.Found = tokstr(TokenAtError.tok, TokenAtError.lit)

(***************************************************************************)
(* C18. Durations that ParseDuration rejects.                              *)
(***************************************************************************)
\* The i-th token of the input is a DURATION_VAL the parser has taken and
\* whose literal ParseDuration rejects.
RejectedDuration(i) ==
    /\ i \in 1..Len(Consumed)
    /\ Input[i].tok = "DURATION_VAL"
    /\ ParseDuration(Input[i].lit).e # Nil

\* C18: whenever the parser consumes a DURATION_VAL whose literal
\* ParseDuration rejects, after the DURATION keyword of a retention policy
\* statement or as the operand of an expression, it returns a ParseError
\* with a Message at the position of that token, and no DurationLiteral is
\* built from the literal.
C18_RejectedDuration ==
    pc = "done" /\ entry \in {"ParseQuery", "ParseStatement"} =>
        \A i \in 1..Len(Input) :
            RejectedDuration(i) =>
                /\ ret.e # Nil /\ IsParseError(ret.e)
                /\ ret.e.Message # <<>>
                /\ ret.e.Pos = i
                /\ NoStatement(ret.v)

(***************************************************************************)
(* C19. Strings that look like dates.                                      *)
(***************************************************************************)
\* The input is SELECT a FROM b WHERE a = <string>.
ComparesWithString ==
    [i \in 1..9 |-> NthToken(i).tok] =
        <<"SELECT", "IDENT", "FROM", "IDENT", "WHERE", "IDENT", "EQ", "STRING", "EOF">>

\* The literal of the string, and the operand made of it.
StringOperand == NthToken(8).lit

Operand == Returned[1].Condition.RHS

\* C19: a STRING operand whose literal is dddd-dd-dd followed by at least
\* one more character becomes a TimeLiteral or fails with the ParseError
\* "unable to parse datetime", and never becomes a StringLiteral; a literal
\* that is exactly dddd-dd-dd becomes a TimeLiteral or fails with a
\* ParseError, and never becomes a StringLiteral; every other literal becomes
\* the StringLiteral of that value.
C19_TimeLiterals ==
    pc = "done" /\ entry \in {"ParseQuery", "ParseStatement"} /\ ComparesWithString =>
        IF DatePrefix(StringOperand) /\ Len(StringOperand) > 10
        THEN \/ ret.e = Nil /\ Operand.k = "TimeLiteral"
             \/ /\ ret.e # Nil /\ IsParseError(ret.e)
                /\ ret.e.Message = <<"unable to parse datetime">>
        ELSE IF DatePrefix(StringOperand)
             THEN \/ ret.e = Nil /\ Operand.k = "TimeLiteral"
                  \/ ret.e # Nil /\ IsParseError(ret.e)
        ELSE ret.e = Nil /\ Operand = StringLiteral(StringOperand)

(***************************************************************************)
(* C20. The wildcard among the fields.                                     *)
(***************************************************************************)
\* The SELECT statements among the statements returned: the statements
\* themselves and the sources of the continuous queries.
SelectsReturned ==
    {Returned[i] : i \in {j \in 1..Len(Returned) : Returned[j].k = "SelectStatement"}}
        \cup {Returned[i].Source :
                 i \in {j \in 1..Len(Returned) :
                           Returned[j].k = "CreateContinuousQueryStatement"}}

\* C20: in every SelectStatement returned the fields are either exactly one
\* Wildcard field with an empty alias, or fields <expr> [AS <ident>] none of
\* whose top-level expressions is a bare Wildcard: a Wildcard never stands
\* next to other fields and never carries an alias.
C20_WildcardAlone ==
    Accepted /\ entry \in {"ParseQuery", "ParseStatement"} =>
        \A s \in SelectsReturned :
            \/ s.Fields = <<[k |-> "Field", Expr |-> Wildcard, Alias |-> <<>>]>>
            \/ \A i \in 1..Len(s.Fields) : s.Fields[i].Expr # Wildcard

(***************************************************************************)
(* C21. A failed peek consumes no token.                                   *)
(***************************************************************************)
\* The states a parser of the input can be in when a routine is called: any
\* number of tokens scanned, the last of them pushed back or not.
ParserStates ==
    {[NewParser(Input) EXCEPT !.i = i, !.n = n, !.unscans = n] :
        i \in 0..(Len(Input) + 1), n \in {0, 1}} \ {[NewParser(Input) EXCEPT !.n = 1,
                                                                           !.unscans = 1]}

\* The routine that returned r from the state q has returned the result
\* empty without error, and the next token after it, whitespace skipped, is
\* the one that came next in q, at the same position and with the same
\* literal.
NothingConsumed(q, r, empty) ==
    /\ r.e = Nil
    /\ r.v = empty
    /\ scanIgnoreWhitespace(r.p).tok = scanIgnoreWhitespace(q).tok
    /\ scanIgnoreWhitespace(r.p).pos = scanIgnoreWhitespace(q).pos
    /\ scanIgnoreWhitespace(r.p).lit = scanIgnoreWhitespace(q).lit

\* The parser that has just scanned the first number of the input, the
\* replication of a CREATE RETENTION POLICY statement.
AfterReplication ==
    [NewParser(Input) EXCEPT
        !.i = CHOOSE i \in 1..Len(Input) :
                  /\ Input[i].tok = "NUMBER"
                  /\ \A j \in 1..(i - 1) : Input[j].tok # "NUMBER"]

\* A statement for the option loop of ALTER RETENTION POLICY to go on with.
SomePolicy ==
    [k |-> "AlterRetentionPolicyStatement", Name |-> <<"a">>, Database |-> <<"b">>,
     Duration |-> Nil, Replication |-> Nil, Default |-> TRUE]

\* C21: whenever a routine looks at the next token, whitespace skipped, and
\* does not consume it (the keyword of an optional clause WHERE, GROUP,
\* ORDER, LIMIT, OFFSET, INTO, AS or DEFAULT is absent, or the
\* token after an expression is no operator), the routine returns its empty
\* or finished result without error, and the very next scanIgnoreWhitespace
\* returns that same token with the same position and literal.
C21_FailedPeek ==
    /\ pc = "done" /\ entry \in {"ParseQuery", "ParseStatement"} =>
        \A q \in ParserStates :
            /\ scanIgnoreWhitespace(q).tok # "WHERE" =>
                   NothingConsumed(q, parseCondition(q), Nil)
            /\ scanIgnoreWhitespace(q).tok # "GROUP" =>
                   NothingConsumed(q, parseDimensions(q), Nil)
            /\ scanIgnoreWhitespace(q).tok # "ORDER" =>
                   NothingConsumed(q, parseOrderBy(q), Nil)
            /\ scanIgnoreWhitespace(q).tok # "LIMIT" =>
                   NothingConsumed(q, parseOptionalTokenAndInt(q, "LIMIT"), Zero64)
            /\ scanIgnoreWhitespace(q).tok # "OFFSET" =>
                   NothingConsumed(q, parseOptionalTokenAndInt(q, "OFFSET"), Zero64)
            /\ scanIgnoreWhitespace(q).tok # "INTO" =>
                   NothingConsumed(q, parseTarget(q, "targetNotRequired"), Nil)
            /\ scanIgnoreWhitespace(q).tok # "AS" =>
                   NothingConsumed(q, parseAlias(q), <<>>)
            /\ scanIgnoreWhitespace(q).tok \notin {"DURATION", "REPLICATION", "DEFAULT"} =>
                   NothingConsumed(q, parseAlterOptions(q, SomePolicy, 1), SomePolicy)
            /\ ~isOperator(scanIgnoreWhitespace(q).tok) =>
                   /\ ParseExprIter(q, VarRef(<<"a">>)).done
                   /\ NothingConsumed(q, ParseExprIter(q, VarRef(<<"a">>)),
                                      VarRef(<<"a">>))
    /\ Accepted /\ entry = "ParseStatement"
           /\ Returned[1].k = "CreateRetentionPolicyStatement"
           /\ ~Returned[1].Default =>
        NothingConsumed(AfterReplication, [p |-> p, v |-> Nil, e |-> Nil], Nil)

\* ParseStatement has returned SELECT a FROM b and left the INTO that follows
\* it for the next scan: each of the optional clauses after FROM has looked
\* at INTO and pushed it back.
C21_Witness ==
    /\ Accepted /\ entry = "ParseStatement"
    /\ Returned[1].k = "SelectStatement"
    /\ Returned[1].Condition = Nil /\ Returned[1].Limit = Zero64
    /\ p \in ParserStates
    /\ scanIgnoreWhitespace(p).tok = "INTO"
    /\ NothingConsumed(p, parseCondition(p), Nil)

(***************************************************************************)
(* C22. The value of LIMIT and OFFSET.                                     *)
(***************************************************************************)
\* The clause kw <number> is among the tokens the parser has taken.
HasCount(kw) ==
    \E i \in 1..(Len(NonWs(Consumed)) - 1) :
        NonWs(Consumed)[i].tok = kw /\ NonWs(Consumed)[i + 1].tok = "NUMBER"

\* The literal of the number of the first clause kw.
CountLiteral(kw) ==
    NonWs(Consumed)[1 + CHOOSE i \in 1..(Len(NonWs(Consumed)) - 1) :
                            /\ NonWs(Consumed)[i].tok = kw
                            /\ NonWs(Consumed)[i + 1].tok = "NUMBER"
                            /\ \A j \in 1..(i - 1) : NonWs(Consumed)[j].tok # kw].lit

\* C22: when a LIMIT or OFFSET clause is accepted, the Limit or Offset stored
\* is the decimal value of the NUMBER literal that was scanned; a digit
\* string whose value does not fit the integer type is rejected with a
\* ParseError and not stored as another value, clamped or wrapped.
C22_CountValue ==
    /\ Accepted /\ entry \in {"ParseQuery", "ParseStatement"} /\ Len(Returned) = 1 =>
        /\ HasCount("LIMIT") =>
               FormatInt(LimitOf(Returned[1])) = CountLiteral("LIMIT")
        /\ HasCount("OFFSET") =>
               FormatInt(OffsetOf(Returned[1])) = CountLiteral("OFFSET")
    /\ pc = "done" /\ entry \in {"ParseQuery", "ParseStatement"}
           /\ (\/ HasCount("LIMIT") /\ ParseInt(CountLiteral("LIMIT")).err # ""
               \/ HasCount("OFFSET") /\ ParseInt(CountLiteral("OFFSET")).err # "") =>
        ret.e # Nil /\ IsParseError(ret.e)

(***************************************************************************)
(* C23. ParseDuration and the product of number and unit.                  *)
(***************************************************************************)
\* The number and the suffix of the string given to ParseDuration.
TextNumber == ParseInt(SelectSeq(text, isDigit))

TextSuffix == SelectSeq(text, LAMBDA c : ~isDigit(c))

\* The unit of the suffix, as its factors in nanoseconds.
TextUnit == (CHOOSE sfx \in UnitSuffixes : sfx[1] = TextSuffix)[2]

\* x * fs[1] * ... * fs[n] fits a signed 64-bit integer, for x >= 0.
RECURSIVE ProductFits(_, _)
ProductFits(x, fs) ==
    IF fs = <<>> THEN TRUE
    ELSE /\ MulAdd(x, Head(fs), 0).c = 0
         /\ ~IsNeg(MulAdd(x, Head(fs), 0).v)
         /\ ProductFits(MulAdd(x, Head(fs), 0).v, Tail(fs))

\* C23: for every string of a decimal number n that fits a signed 64-bit
\* integer and a valid unit (u, µ, ms, s, m, h, d, w, or none for
\* microseconds), ParseDuration returns exactly n times the length of the
\* unit in nanoseconds or an invalid-duration error, and never succeeds
\* with a value that is not the exact product.
C23_ExactProduct ==
    pc = "done" /\ entry = "ParseDuration" /\ TextNumber.err = "" =>
        \/ ret.e = ErrInvalidDuration
        \/ /\ ret.e = Nil
           /\ ProductFits(TextNumber.n, TextUnit)
           /\ ret.v = MulAll(TextNumber.n, TextUnit)

(***************************************************************************)
(* C24. The tree of ParseExpr keeps the order of the input.                *)
(***************************************************************************)
\* The tokens of the tree e from left to right: its operands and operators,
\* and the parentheses of its ParenExprs.
RECURSIVE InOrder(_)
InOrder(e) ==
    CASE e.k = "BinaryExpr" -> InOrder(e.LHS) \o <<Tk(e.Op)>> \o InOrder(e.RHS)
      [] e.k = "ParenExpr" -> <<Tk("LPAREN")>> \o InOrder(e.Expr) \o <<Tk("RPAREN")>>
      [] e.k = "VarRef" -> <<Ident(e.Val)>>

\* The tree e has been rotated around an operand in parentheses: its right
\* child is the BinaryExpr that took the ParenExpr from the old root.
RotatedAroundParens(e) ==
    /\ e.k = "BinaryExpr"
    /\ e.RHS.k = "BinaryExpr"
    /\ e.RHS.LHS.k = "ParenExpr"
    /\ Precedence(e.Op) < Precedence(e.RHS.Op)

\* C24: for every expression ParseExpr accepts, at every iteration of its
\* loop, with the rotation or without it, the tree built so far holds each
\* operand and each operator consumed so far exactly once, and lists them
\* from left to right in the order of the input; an operand in parentheses
\* is never opened or rearranged by a rotation.
C24_InOrder ==
    /\ entry = "ParseExpr" /\ pc = "ExprLoop" => InOrder(expr) = NonWs(Consumed)
    /\ entry = "ParseExpr" /\ Accepted => InOrder(ret.v) = NonWs(Consumed)

\* The loop has rotated the tree around an operand in parentheses, as in
\* a + (b + c) * d.
C24_Witness ==
    /\ entry = "ParseExpr" /\ pc = "ExprLoop"
    /\ RotatedAroundParens(expr)
    /\ InOrder(expr) = NonWs(Consumed)

(***************************************************************************)
(* C25. ParseQuery terminates.                                             *)
(***************************************************************************)
\* The parser runs on by itself: a step that can be taken is taken.
FairSpecQuery == SpecQuery /\ WF_vars(NextQuery)

\* What ParseQuery returns: a Query and no error, or a ParseError alone.
QueryOrParseError ==
    \/ ret.e = Nil /\ ret.v # Nil /\ ret.v.k = "Query"
    \/ ret.e # Nil /\ IsParseError(ret.e) /\ ret.v = Nil

\* The input has a list of two elements at least, and more than one
\* statement.
SeveralOfEach ==
    /\ Count(Input, "COMMA") > 0
    /\ Count(Input, "SEMICOLON") > 0

\* C25: ParseQuery terminates on every finite token stream, the scanner
\* returning EOF for ever once exhausted: every iteration of the statement
\* loop, of the expression loop of ParseExpr and of each comma-separated
\* list loop has read a new token or left the loop, and the parser ends
\* with a Query or with a ParseError.
C25_Terminates ==
    <>(/\ pc = "done"
       /\ ~p.stalled
       /\ entry = "ParseQuery" => QueryOrParseError)

\* ParseQuery has returned a Query of several statements, the loops of the
\* statements and of a list having gone round, none of them stalled.
C25_Witness ==
    /\ Accepted /\ entry = "ParseQuery"
    /\ Len(ret.v.Statements) > 1
    /\ SeveralOfEach
    /\ ~p.stalled

=============================================================================
